---- MODULE Spec2Model ----
(***************************************************************************)
(* Model of the Q Business inventory exporters:                            *)
(*   src/src/get_qbusiness_global_enhanced.py  (variant "enhanced")        *)
(*   src/get_qapps_info.py                     (variant "info")            *)
(* The paginated list+hydrate collectors are one step machine (the frame   *)
(* col), the aggregation loop export_all_data / retrieve_all_data is a     *)
(* second one (pc), and the remote AWS service is the environment: every   *)
(* remote call draws its response from the set of responses the service    *)
(* can give.                                                               *)
(***************************************************************************)
EXTENDS Integers, Sequences, FiniteSets, TLC

VARIABLES
    variant,            \* which script runs: "enhanced" | "info" | "harness"
    include_empty,      \* config export.include_empty_apps
    pc,                 \* position of the aggregation loop
    applications,       \* result of list_applications()
    app_i,              \* index of the parent the for-loop is at
    identity_store_id,  \* self.identity_store_id
    user_cache,         \* self.user_cache
    index_id,           \* locals of one loop iteration
    qapps,
    data_sources,
    retrievers,
    plugins,
    chat_controls,
    qapp_i,             \* index of the app child the row loop is at
    all_data,           \* the rows appended so far
    col,                \* frame of the collector call in progress
    obs,                \* observation of that call: what the service returned
    fetched,            \* fetches of the current parent that have returned
    remote,             \* record of the remote calls made in this run
    budget,             \* non-default service responses still allowed
    call,               \* one call of a helper function: argument and result
    output,             \* the output directory: whether it exists, its files
    threads             \* callers of get_user_details running side by side

vars == <<variant, include_empty, pc, applications, app_i, identity_store_id,
          user_cache, index_id, qapps, data_sources, retrievers, plugins,
          chat_controls, qapp_i, all_data, col, obs, fetched, remote, budget,
          call, output, threads>>

pipeVars == <<include_empty, applications, app_i, identity_store_id,
              user_cache, index_id, qapps, data_sources, retrievers, plugins,
              chat_controls, qapp_i, all_data, fetched>>

----------------------------------------------------------------------------
(* Bounds *)

\* parents the scripted service lists
NumParents == 2
\* non-default responses (failures, empty or odd answers) in one pipeline run
MaxDeviations == 2
\* list pages the free service of the collector harness returns at most
MaxPages == 2
\* items on one page of the free service
MaxItems == 3
\* entries of the Emails list of a describe_user response
MaxEmails == 3
\* fields of a record whose presence differs from that of all the others
MaxFlips == 1
\* records handed to an export
MaxRows == 2
\* flattenings that run side by side
NumThreads == 2
\* names in the column configuration
MaxConfig == 2

----------------------------------------------------------------------------
(* Python values *)

\* Python's None
None == "<None>"

\* dict.get(k, default)
Get(d, k, default) == IF k \in DOMAIN d THEN d[k] ELSE default

\* truth value of a string-or-None, as `if x:` takes it
Truthy(x) == x # None /\ x # ""

\* the empty dict
EmptyDict == <<>>

Tokens == {"t1", "t2"}

----------------------------------------------------------------------------
(* The collectors: list_applications, get_qapps, get_data_sources,         *)
(* get_retrievers, get_plugins share one loop.                             *)

Kinds == {"applications", "qapps", "data_sources", "retrievers", "plugins"}

\* the key of the item id the get call is given
IdKey(kind) ==
    CASE kind = "applications" -> "applicationId"
      [] kind = "qapps"        -> "libraryItemId"
      [] kind = "data_sources" -> "dataSourceId"
      [] kind = "retrievers"   -> "retrieverId"
      [] kind = "plugins"      -> "pluginId"

\* every collector of every script calls the get operation
HydratesAlways(v, kind) == TRUE

\* whether the collector calls the get operation for each listed item:
\* every collector does, but get_qapps of the enhanced script
Hydrates(v, kind) == ~(v = "enhanced" /\ kind = "qapps")

IdleCol == [pc |-> "idle", kind |-> None, app |-> None, hydrate |-> FALSE,
            acc |-> <<>>, next_token |-> None, items |-> <<>>,
            resp_token |-> None, i |-> 0, result |-> <<>>]

IdleObs == [seen |-> <<>>, outcomes |-> <<>>, listfail |-> FALSE,
            cursors |-> <<>>, returned |-> <<>>, gets |-> 0]

\* entry of a collector: acc = [], next_token = None
StartCol(kind, app, hydrate) ==
    [IdleCol EXCEPT !.pc = "list", !.kind = kind, !.app = app,
                    !.hydrate = hydrate]

----------------------------------------------------------------------------
(* The remote service.  A list response is [err, items, nextToken], a get  *)
(* response is [err, detail]; err stands for a botocore ClientError.       *)

ListError == [err |-> TRUE, items |-> <<>>, nextToken |-> None]

ListPage(items, tok) == [err |-> FALSE, items |-> items, nextToken |-> tok]

GetError == [err |-> TRUE, detail |-> EmptyDict]

GetOk(detail) == [err |-> FALSE, detail |-> detail]

\* the field a get response has and a list summary has not
DetailKey(kind) ==
    CASE kind = "applications" -> "identityCenterApplicationArn"
      [] kind = "qapps"        -> "title"
      [] kind = "data_sources" -> "roleArn"
      [] kind = "retrievers"   -> "configuration"
      [] kind = "plugins"      -> "authConfiguration"

DetailOf(kind, item) == item @@ (DetailKey(kind) :> ("detail-" \o item[IdKey(kind)]))

\* -- the free service of the harness: any page, any cursor, any failure --

FreeItem(kind, page, j) ==
    (IdKey(kind) :> ("i" \o ToString(page) \o "-" \o ToString(j)))
    @@ ("status" :> "ACTIVE")

FreeItems(kind, page, n) == [j \in 1..n |-> FreeItem(kind, page, j)]

FreeListResponses(kind, page) ==
    IF page > MaxPages THEN {} ELSE
    {ListError} \cup
    { ListPage(FreeItems(kind, page, n), tok) :
        n \in 0..MaxItems,
        tok \in (IF page < MaxPages THEN Tokens \cup {None} ELSE {None}) }

FreeGetResponses(kind, item) == {GetError, GetOk(DetailOf(kind, item))}

\* -- the scripted service of the pipeline: a fixed account, from which a --
\* -- response may deviate while the budget lasts                         --

AppName(p) == "app" \o ToString(p)

Tok(n) == "t" \o ToString(n)

PageOfCursor(cursor) ==
    IF cursor = None THEN 1
    ELSE CHOOSE n \in 1..(NumParents + 2) : Tok(n) = cursor

Principals == {"u1", "u2"}

AppSummary(p) ==
    [applicationId |-> AppName(p), displayName |-> "name-" \o AppName(p),
     status |-> "ACTIVE", identityType |-> "AWS_IAM_IDC"]

QAppA(app) ==
    [libraryItemId |-> "qa-" \o app, appId |-> "a-" \o app, userCount |-> 3,
     createdBy |-> "u1", updatedBy |-> "u2"]

QAppB(app) ==
    [libraryItemId |-> "qb-" \o app, appId |-> "b-" \o app, userCount |-> 1,
     createdBy |-> "u2"]

ScriptedPages(kind, app) ==
    CASE kind = "applications" -> [p \in 1..NumParents |-> <<AppSummary(p)>>]
      [] kind = "qapps"        -> << <<QAppA(app)>>, <<QAppB(app)>> >>
      [] kind = "data_sources" ->
            << <<[dataSourceId |-> "ds-" \o app, type |-> "S3", status |-> "ACTIVE"]>> >>
      [] kind = "retrievers"   ->
            << <<[retrieverId |-> "r-" \o app, type |-> "NATIVE_INDEX", status |-> "ACTIVE"]>> >>
      [] kind = "plugins"      ->
            << <<[pluginId |-> "p-" \o app, type |-> "JIRA", state |-> "ENABLED"]>>,
               <<[pluginId |-> "a-" \o app, type |-> "CUSTOM", state |-> "ENABLED"]>> >>

ScriptedDefaultPage(kind, app, cursor) ==
    LET pages == ScriptedPages(kind, app)
        n     == PageOfCursor(cursor)
    IN  IF n \in 1..Len(pages)
        THEN ListPage(pages[n], IF n < Len(pages) THEN Tok(n + 1) ELSE None)
        ELSE ListPage(<<>>, None)

ScriptedListResponses(kind, app, cursor) ==
    {ScriptedDefaultPage(kind, app, cursor), ListError}
    \cup (IF kind = "qapps" THEN {ListPage(<<>>, None)} ELSE {})

\* GetApplication may also answer with an application that is not backed by
\* IAM Identity Center
OidcDetail(item) ==
    [item EXCEPT !.identityType = "AWS_IAM_IDP_OIDC"]
    @@ [iamIdentityProviderArn |-> "idp-" \o item.applicationId]

ScriptedGetResponses(kind, item) ==
    {GetOk(DetailOf(kind, item)), GetError}
    \cup (IF kind = "applications" THEN {GetOk(OidcDetail(item))} ELSE {})

ListResponses(v, kind, app, cursor, page) ==
    IF v = "harness" THEN FreeListResponses(kind, page)
    ELSE ScriptedListResponses(kind, app, cursor)

GetResponses(v, kind, item) ==
    IF v = "harness" THEN FreeGetResponses(kind, item)
    ELSE ScriptedGetResponses(kind, item)

\* what a response costs of the budget: the scripted service's first choice
\* is free, any other response is a deviation
ListCost(v, kind, app, cursor, r) ==
    IF v = "harness" \/ r = ScriptedDefaultPage(kind, app, cursor) THEN 0 ELSE 1

GetCost(v, kind, item, g) ==
    IF v = "harness" \/ g = GetOk(DetailOf(kind, item)) THEN 0 ELSE 1

----------------------------------------------------------------------------
(* Record of the run, kept beside the program: how often each identity     *)
(* operation was called, the parents one of whose calls failed, and per    *)
(* parent what the library listing returned.                               *)

\* before any export: no output directory, no file, no error reported
NoOutput == [dir |-> FALSE, files |-> <<>>, error |-> FALSE]

\* no helper call in progress
NoCall == [fn |-> None, arg |-> EmptyDict, done |-> FALSE, ret |-> None]

AllIds == Principals \cup {"N/A"}

NoRemote == [describe |-> [u \in AllIds |-> 0], discover |-> 0,
             faulted |-> {}, listed |-> <<>>, k |-> <<>>, failed |-> {},
             qapps_failed |-> {},
             indices |-> <<>>, ds |-> {}, chat_failed |-> {},
             listed_ids |-> [kind \in {"data_sources", "retrievers", "plugins"}
                               |-> <<>>]]

\* the ids of the items the list calls of the collector call just ended
\* returned, in the order they came; none when a list call failed
NoteListed(r, kind) ==
    [r EXCEPT !.listed_ids[kind] =
        IF obs.listfail THEN <<>>
        ELSE [n \in 1..Len(obs.seen) |-> obs.seen[n][IdKey(kind)]]]

NoteFault(r, parent) ==
    IF variant = "harness" THEN r ELSE [r EXCEPT !.faulted = @ \cup {parent}]

\* a list_data_sources or get_data_source call: the parent and the indexId
\* it is made for
NoteDataSourceCall(r) ==
    IF variant # "harness" /\ col.kind = "data_sources"
    THEN [r EXCEPT !.ds = @ \cup {<<app_i, index_id>>}]
    ELSE r

\* the parent a collector call works for: the one being hydrated while the
\* applications are listed, the one the for-loop is at afterwards
ParentOfCall == IF col.kind = "applications" THEN Len(col.acc) + 1 ELSE app_i

----------------------------------------------------------------------------
(* The collector loop *)

\* the cursor of the previous response is not passed on
CursorPassedNever(next_token) == None

\* the cursor a list call passes: params['nextToken'] only `if next_token`
CursorPassed(next_token) == IF Truthy(next_token) THEN next_token ELSE None


\* the except clause returns the first item gathered before the failure
OnListFailureKeepsFirst(acc) == IF acc # <<>> THEN <<acc[1]>> ELSE <<>>

\* the except clause returns what was gathered before the failure
OnListFailureKeepsItems(acc) == acc

\* except ClientError around the loop: return []
OnListFailure(acc) == <<>>


\* the except clause of the get call drops the item
OnGetFailureDropsItem(acc, item) == acc

\* except ClientError around one get call: append the list summary
OnGetFailure(acc, item) == Append(acc, item)

\* next_token = response.get('nextToken'); if not next_token: break
\* the loop has no break: a response without cursor is followed by one more
\* list call
AfterPageNeverBreaks(c, acc, tok) ==
    [c EXCEPT !.pc = "list", !.acc = acc, !.next_token = tok,
              !.items = <<>>, !.i = 0, !.resp_token = None]

\* the end of a page: `next_token = response.get('nextToken')`, break and
\* return when there is none
AfterPage(c, acc, tok) ==
    IF Truthy(tok)
    THEN [c EXCEPT !.pc = "list", !.acc = acc, !.next_token = tok,
                   !.items = <<>>, !.i = 0, !.resp_token = None]
    ELSE [c EXCEPT !.pc = "ret", !.acc = acc, !.next_token = tok,
                   !.items = <<>>, !.i = 0, !.resp_token = None,
                   !.result = acc]

\* one list call and what follows it up to the next remote call
ColList ==
    /\ col.pc = "list"
    /\ LET cursor == CursorPassed(col.next_token)
           page   == Len(obs.cursors) + 1
       IN \E r \in ListResponses(variant, col.kind, col.app, cursor, page) :
            LET cost == ListCost(variant, col.kind, col.app, cursor, r)
            IN /\ cost <= budget
               /\ budget' = budget - cost
               /\ IF r.err
                  THEN /\ col' = [col EXCEPT !.pc = "ret",
                                             !.result = OnListFailure(col.acc)]
                       /\ obs' = [obs EXCEPT !.cursors = Append(@, cursor),
                                             !.returned = Append(@, None),
                                             !.listfail = TRUE]
                  ELSE /\ obs' = [obs EXCEPT !.cursors = Append(@, cursor),
                                             !.returned = Append(@, r.nextToken),
                                             !.seen = @ \o r.items]
                       /\ IF col.hydrate /\ r.items # <<>>
                          THEN col' = [col EXCEPT !.pc = "get", !.items = r.items,
                                                  !.i = 1,
                                                  !.resp_token = r.nextToken]
                          ELSE col' = AfterPage(col,
                                         IF col.hydrate THEN col.acc
                                         ELSE col.acc \o r.items,
                                         r.nextToken)
               /\ remote' = NoteDataSourceCall(
                                IF r.err /\ col.kind # "applications"
                                THEN NoteFault(remote, app_i) ELSE remote)
    /\ UNCHANGED <<variant, call, output, threads, pc, pipeVars>>

\* one get call of the for-loop over the page's items
ColGet ==
    /\ col.pc = "get"
    /\ LET item == col.items[col.i]
       IN \E g \in GetResponses(variant, col.kind, item) :
            LET cost == GetCost(variant, col.kind, item, g)
                acc2 == IF g.err THEN OnGetFailure(col.acc, item)
                        ELSE Append(col.acc, g.detail)
            IN /\ cost <= budget
               /\ budget' = budget - cost
               /\ obs' = [obs EXCEPT !.outcomes = Append(@, ~g.err),
                                     !.gets = @ + 1]
               /\ IF col.i < Len(col.items)
                  THEN col' = [col EXCEPT !.acc = acc2, !.i = @ + 1]
                  ELSE col' = AfterPage(col, acc2, col.resp_token)
               /\ remote' = NoteDataSourceCall(
                                IF g.err THEN NoteFault(remote, ParentOfCall)
                                ELSE remote)
    /\ UNCHANGED <<variant, call, output, threads, pc, pipeVars>>

----------------------------------------------------------------------------
(* Identity: get_identity_store_id, get_user_details, _extract_email *)

\* sso-admin list_instances
InstancesOk == [err |-> FALSE, Instances |-> <<[IdentityStoreId |-> "d-1"]>>]

InstancesResponses ==
    {InstancesOk, [err |-> TRUE, Instances |-> <<>>],
     [err |-> FALSE, Instances |-> <<>>]}

\* get_identity_store_id: the first instance's store id, None when the call
\* fails or lists no instance
GetIdentityStoreId(r) ==
    IF r.err THEN None
    ELSE IF r.Instances # <<>> THEN r.Instances[1].IdentityStoreId
    ELSE None

\* identitystore describe_user
DescribeOk(user_id) ==
    [err |-> FALSE,
     user |-> [UserName |-> "name-" \o user_id,
               DisplayName |-> "Name " \o user_id,
               Emails |-> <<[Value |-> user_id \o "@alt"],
                            [Value |-> user_id \o "@corp", Primary |-> TRUE]>>]]

DescribeError == [err |-> TRUE, user |-> EmptyDict]

DescribeResponses(user_id) == {DescribeOk(user_id), DescribeError}

RECURSIVE PrimaryEmail(_, _)
\* the for-loop of _extract_email from entry i on: the first Primary entry
PrimaryEmail(emails, i) ==
    IF i > Len(emails) THEN None
    ELSE IF Get(emails[i], "Primary", FALSE)
         THEN Get(emails[i], "Value", "N/A")
         ELSE PrimaryEmail(emails, i + 1)

\* the Primary flag is not looked at
ExtractEmailIgnoresPrimary(user_response) ==
    LET emails == Get(user_response, "Emails", <<>>)
    IN  IF emails # <<>> THEN Get(emails[1], "Value", "N/A") ELSE "N/A"

\* _extract_email
ExtractEmail(user_response) ==
    LET emails == Get(user_response, "Emails", <<>>)
    IN  IF emails # <<>>
        THEN IF \E i \in 1..Len(emails) : Get(emails[i], "Primary", FALSE)
             THEN PrimaryEmail(emails, 1)
             ELSE Get(emails[1], "Value", "N/A")
        ELSE "N/A"

Placeholder(user_id) ==
    [username |-> user_id, email |-> "N/A", display_name |-> "N/A"]


\* the cache is never consulted
CacheHitNever(cache, user_id) == FALSE

\* a cached placeholder does not count as a hit: the lookup is tried again
CacheHitUnlessPlaceholder(cache, user_id) ==
    user_id \in DOMAIN cache /\ cache[user_id].email # "N/A"

\* a placeholder cached while no directory id was known stops counting as a
\* hit once the directory id is known
CacheHitForgetsOnDiscovery(cache, user_id) ==
    user_id \in DOMAIN cache
    /\ (cache[user_id].email = "N/A" => ~Truthy(identity_store_id))

\* the cache test at the head of get_user_details
CacheHit(cache, user_id) == user_id \in DOMAIN cache


\* the 'N/A' sentinel is not tested
SkipLookupStoreOnly(store, user_id) == ~Truthy(store)

\* `if not identity_store_id or user_id == 'N/A'`
SkipLookup(store, user_id) == ~Truthy(store) \/ user_id = "N/A"


\* the record is returned without being stored
CachePutForgets(cache, user_id, info) == cache

\* self.user_cache[user_id] = user_info
CachePut(cache, user_id, info) ==
    [u \in DOMAIN cache \cup {user_id} |-> IF u = user_id THEN info ELSE cache[u]]

\* the handler forgets to cache the placeholder it returns
OnDescribeFailureNotCached(cache, user_id) == cache

\* the `except ClientError` of get_user_details: the placeholder is cached
OnDescribeFailure(cache, user_id) ==
    CachePut(cache, user_id, Placeholder(user_id))

\* get_user_details(identity_store_id, user_id) with d the answer describe_user
\* gives if it is called: the cache afterwards, the record returned, and
\* whether the remote call was made
GetUserDetails(cache, store, user_id, d) ==
    IF CacheHit(cache, user_id)
    THEN [cache |-> cache, info |-> cache[user_id], called |-> FALSE]
    ELSE IF SkipLookup(store, user_id)
    THEN [cache |-> CachePut(cache, user_id, Placeholder(user_id)),
          info |-> Placeholder(user_id), called |-> FALSE]
    ELSE IF d.err
    THEN [cache |-> OnDescribeFailure(cache, user_id),
          info |-> Placeholder(user_id), called |-> TRUE]
    ELSE LET info == [username |-> Get(d.user, "UserName", "N/A"),
                      email |-> ExtractEmail(d.user),
                      display_name |-> Get(d.user, "DisplayName", "N/A")]
         IN  [cache |-> CachePut(cache, user_id, info), info |-> info,
              called |-> TRUE]

----------------------------------------------------------------------------
(* The aggregation loop: export_all_data (enhanced), retrieve_all_data     *)
(* (info)                                                                  *)

Variants == {"enhanced", "info"}

FetchKinds(v) ==
    IF v = "enhanced"
    THEN {"indices", "qapps", "data_sources", "retrievers", "plugins", "chat"}
    ELSE {"qapps"}

FirstPhase(v) == IF v = "enhanced" THEN "discover" ELSE "qapps"


\* the rows are made before the chat controls are fetched
PhaseAfterRowsBeforeChat(phase) ==
    IF variant = "enhanced"
    THEN CASE phase = "discover"     -> "indices"
           [] phase = "indices"      -> "qapps"
           [] phase = "qapps"        -> "data_sources"
           [] phase = "data_sources" -> "retrievers"
           [] phase = "retrievers"   -> "plugins"
           [] phase = "plugins"      -> "rows"
           [] phase = "chat"         -> "rows"
    ELSE "rows"

\* the order of the statements of one loop iteration: what follows a fetch
PhaseAfter(phase) ==
    IF variant = "enhanced"
    THEN CASE phase = "discover"     -> "indices"
           [] phase = "indices"      -> "qapps"
           [] phase = "qapps"        -> "data_sources"
           [] phase = "data_sources" -> "retrievers"
           [] phase = "retrievers"   -> "plugins"
           [] phase = "plugins"      -> "chat"
           [] phase = "chat"         -> "rows"
    ELSE "rows"


\* a failure while a parent is processed ends the loop, as an exception
\* that nothing catches would
LoopNextStopsOnFailure(i, n) ==
    IF i < n /\ i \notin remote.faulted THEN FirstPhase(variant) ELSE "done"

\* `for app in applications`: the next iteration, or the end of the loop
LoopNext(i, n) == IF i < n THEN FirstPhase(variant) ELSE "done"

App == applications[app_i]

AppId == Get(App, "applicationId", "N/A")

\* applications = self.list_applications()
ListApplicationsCall ==
    /\ pc = "start"
    /\ col' = StartCol("applications", None, TRUE)
    /\ obs' = IdleObs
    /\ pc' = "list_apps"
    /\ UNCHANGED <<variant, call, output, threads, pipeVars, remote, budget>>

ListApplicationsReturn ==
    /\ pc = "list_apps"
    /\ col.pc = "ret"
    /\ applications' = col.result
    /\ app_i' = IF col.result # <<>> THEN 1 ELSE 0
    /\ pc' = LoopNext(0, Len(col.result))
    /\ col' = IdleCol
    /\ obs' = IdleObs
    /\ fetched' = {}
    /\ UNCHANGED <<variant, call, output, threads, include_empty, identity_store_id, user_cache,
                   index_id, qapps, data_sources, retrievers, plugins,
                   chat_controls, qapp_i, all_data, remote, budget>>

\* the directory id already held is not looked at: every parent backed by
\* IAM Identity Center discovers it anew
DiscoveryDueEveryParent(store, app) ==
    /\ Get(app, "identityType", None) = "AWS_IAM_IDC"
    /\ Truthy(Get(app, "identityCenterApplicationArn", None))

\* `if not self.identity_store_id` and the two tests nested in it
DiscoveryDue(store, app) ==
    /\ ~Truthy(store)
    /\ Get(app, "identityType", None) = "AWS_IAM_IDC"
    /\ Truthy(Get(app, "identityCenterApplicationArn", None))

\* lines 385-391: get the identity store id
Discover ==
    /\ pc = "discover"
    /\ IF DiscoveryDue(identity_store_id, App)
       THEN \E r \in InstancesResponses :
              LET cost == IF r = InstancesOk THEN 0 ELSE 1
              IN /\ cost <= budget
                 /\ budget' = budget - cost
                 /\ identity_store_id' = GetIdentityStoreId(r)
                 /\ remote' = [(IF r.err THEN NoteFault(remote, app_i) ELSE remote)
                                 EXCEPT !.discover = @ + 1]
       ELSE UNCHANGED <<identity_store_id, remote, budget>>
    /\ pc' = PhaseAfter("discover")
    /\ UNCHANGED <<variant, call, output, threads, include_empty, applications, app_i, user_cache,
                   index_id, qapps, data_sources, retrievers, plugins,
                   chat_controls, qapp_i, all_data, col, obs, fetched>>

IndicesOk(app) ==
    [err |-> FALSE,
     indices |-> <<[indexId |-> "idx-" \o app], [indexId |-> "idx2-" \o app]>>]

IndicesResponses(app) ==
    {IndicesOk(app), [err |-> TRUE, indices |-> <<>>],
     [err |-> FALSE, indices |-> <<>>]}

\* the last index listed is taken, not the first
FirstIndexIsLast(r) ==
    IF r.err THEN None
    ELSE IF r.indices # <<>> THEN r.indices[Len(r.indices)].indexId ELSE None

\* lines 393-403: index_id = None, then the first index if there is one
FirstIndex(r) ==
    IF r.err THEN None
    ELSE IF r.indices # <<>> THEN r.indices[1].indexId ELSE None

ListIndices ==
    /\ pc = "indices"
    /\ \E r \in IndicesResponses(AppId) :
         LET cost == IF r = IndicesOk(AppId) THEN 0 ELSE 1
         IN /\ cost <= budget
            /\ budget' = budget - cost
            /\ index_id' = FirstIndex(r)
            /\ remote' = [(IF r.err THEN NoteFault(remote, app_i) ELSE remote)
                            EXCEPT !.indices = Append(@,
                                [n \in 1..Len(r.indices) |-> r.indices[n].indexId])]
    /\ fetched' = fetched \cup {"indices"}
    /\ pc' = PhaseAfter("indices")
    /\ UNCHANGED <<variant, call, output, threads, include_empty, applications, app_i,
                   identity_store_id, user_cache, qapps, data_sources,
                   retrievers, plugins, chat_controls, qapp_i, all_data,
                   col, obs>>

\* a collector is entered for the current parent
CallCollector(kind) ==
    /\ col.pc = "idle"
    /\ col' = StartCol(kind, AppId, Hydrates(variant, kind))
    /\ obs' = IdleObs

\* qapps = self.get_qapps(app_id)
GetQAppsCall ==
    /\ pc = "qapps"
    /\ CallCollector("qapps")
    /\ pc' = "qapps_wait"
    /\ UNCHANGED <<variant, call, output, threads, pipeVars, remote, budget>>

GetQAppsReturn ==
    /\ pc = "qapps_wait"
    /\ col.pc = "ret"
    /\ qapps' = col.result
    /\ remote' = [remote EXCEPT !.listed = Append(@, Len(obs.seen)),
                                !.k = Append(@, Len(col.result)),
                                !.qapps_failed =
                                    IF obs.listfail THEN @ \cup {app_i} ELSE @]
    /\ fetched' = fetched \cup {"qapps"}
    /\ pc' = PhaseAfter("qapps")
    /\ qapp_i' = 1
    /\ col' = IdleCol
    /\ obs' = IdleObs
    /\ UNCHANGED <<variant, call, output, threads, include_empty, applications, app_i,
                   identity_store_id, user_cache, index_id, data_sources,
                   retrievers, plugins, chat_controls, all_data, budget>>

\* data_sources = [] and, `if index_id`, self.get_data_sources(app_id, index_id)
GetDataSourcesCall ==
    /\ pc = "data_sources"
    /\ IF Truthy(index_id)
       THEN /\ CallCollector("data_sources")
            /\ pc' = "data_sources_wait"
            /\ UNCHANGED <<data_sources, fetched, remote>>
       ELSE /\ data_sources' = <<>>
            /\ fetched' = fetched \cup {"data_sources"}
            /\ pc' = PhaseAfter("data_sources")
            /\ remote' = [remote EXCEPT !.listed_ids["data_sources"] = <<>>]
            /\ UNCHANGED <<col, obs>>
    /\ UNCHANGED <<variant, call, output, threads, include_empty, applications, app_i,
                   identity_store_id, user_cache, index_id, qapps, retrievers,
                   plugins, chat_controls, qapp_i, all_data, budget>>

GetDataSourcesReturn ==
    /\ pc = "data_sources_wait"
    /\ col.pc = "ret"
    /\ data_sources' = col.result
    /\ fetched' = fetched \cup {"data_sources"}
    /\ pc' = PhaseAfter("data_sources")
    /\ remote' = NoteListed(remote, "data_sources")
    /\ col' = IdleCol
    /\ obs' = IdleObs
    /\ UNCHANGED <<variant, call, output, threads, include_empty, applications, app_i,
                   identity_store_id, user_cache, index_id, qapps, retrievers,
                   plugins, chat_controls, qapp_i, all_data, budget>>

\* retrievers = self.get_retrievers(app_id)
GetRetrieversCall ==
    /\ pc = "retrievers"
    /\ CallCollector("retrievers")
    /\ pc' = "retrievers_wait"
    /\ UNCHANGED <<variant, call, output, threads, pipeVars, remote, budget>>

GetRetrieversReturn ==
    /\ pc = "retrievers_wait"
    /\ col.pc = "ret"
    /\ retrievers' = col.result
    /\ fetched' = fetched \cup {"retrievers"}
    /\ pc' = PhaseAfter("retrievers")
    /\ remote' = NoteListed(remote, "retrievers")
    /\ col' = IdleCol
    /\ obs' = IdleObs
    /\ UNCHANGED <<variant, call, output, threads, include_empty, applications, app_i,
                   identity_store_id, user_cache, index_id, qapps,
                   data_sources, plugins, chat_controls, qapp_i, all_data, budget>>

\* plugins = self.get_plugins(app_id)
GetPluginsCall ==
    /\ pc = "plugins"
    /\ CallCollector("plugins")
    /\ pc' = "plugins_wait"
    /\ UNCHANGED <<variant, call, output, threads, pipeVars, remote, budget>>

GetPluginsReturn ==
    /\ pc = "plugins_wait"
    /\ col.pc = "ret"
    /\ plugins' = col.result
    /\ fetched' = fetched \cup {"plugins"}
    /\ pc' = PhaseAfter("plugins")
    /\ remote' = NoteListed(remote, "plugins")
    /\ col' = IdleCol
    /\ obs' = IdleObs
    /\ UNCHANGED <<variant, call, output, threads, include_empty, applications, app_i,
                   identity_store_id, user_cache, index_id, qapps,
                   data_sources, retrievers, chat_controls, qapp_i, all_data, budget>>

ChatOk ==
    [err |-> FALSE,
     config |-> [blockedPhrases |-> [blockedPhrases |-> <<"secret">>,
                                     systemMessageOverride |-> "blocked"],
                 responseScope |-> "ENTERPRISE_CONTENT_ONLY",
                 topicConfigurations |-> <<>>]]

ChatResponses == {ChatOk, [err |-> TRUE, config |-> EmptyDict]}

\* on ClientError the configuration fetched before stays in place
GetChatControlsKeepsOld(r) == IF r.err THEN chat_controls ELSE r.config

\* get_chat_controls: the response, {} on ClientError
GetChatControlsResult(r) == IF r.err THEN EmptyDict ELSE r.config

GetChatControls ==
    /\ pc = "chat"
    /\ \E r \in ChatResponses :
         LET cost == IF r = ChatOk THEN 0 ELSE 1
         IN /\ cost <= budget
            /\ budget' = budget - cost
            /\ chat_controls' = GetChatControlsResult(r)
            /\ remote' = IF r.err
                         THEN [NoteFault(remote, app_i)
                                 EXCEPT !.chat_failed = @ \cup {app_i}]
                         ELSE remote
    /\ fetched' = fetched \cup {"chat"}
    /\ pc' = PhaseAfter("chat")
    /\ UNCHANGED <<variant, call, output, threads, include_empty, applications, app_i,
                   identity_store_id, user_cache, index_id, qapps,
                   data_sources, retrievers, plugins, qapp_i, all_data,
                   col, obs>>

\* the qapp argument of a row without app child (Python's None; only its
\* truth value is ever read)
NoQApp == EmptyDict

\* `if qapp`
HasQApp(qapp) == DOMAIN qapp # {}


\* a parent without app children always gets its row: `else` for
\* `elif include_empty`
EmitsRowsWhateverTheFlag(apps, empty) == TRUE

\* export_all_data lines 432-439: whether the parent gets rows at all
EmitsRows(apps, empty) == apps # <<>> \/ empty

\* the qapp the row loop is at: `for qapp in qapps`, else the null child
RowQApp(apps, i) == IF apps # <<>> THEN apps[i] ELSE NoQApp

\* the row the enhanced script appends, before it is spelled out as columns
\* (GlobalRowColumns): the arguments of _create_global_row, the identity
\* store id and the two resolved identities
\* the collections are used up by the first row of a parent
GlobalRowFirstChildOnly(app, qapp, ds, ret, plg, idx, chat, store, cid, uid, cinfo, uinfo) ==
    [app |-> app, qapp |-> qapp,
     data_sources |-> IF qapp_i <= 1 THEN ds ELSE <<>>,
     retrievers |-> IF qapp_i <= 1 THEN ret ELSE <<>>,
     plugins |-> IF qapp_i <= 1 THEN plg ELSE <<>>,
     index_id |-> idx, chat_controls |-> chat,
     identity_store_id |-> store, creator_id |-> cid, updater_id |-> uid,
     creator_info |-> cinfo, updater_info |-> uinfo]

GlobalRow(app, qapp, ds, ret, plg, idx, chat, store, cid, uid, cinfo, uinfo) ==
    [app |-> app, qapp |-> qapp, data_sources |-> ds, retrievers |-> ret,
     plugins |-> plg, index_id |-> idx, chat_controls |-> chat,
     identity_store_id |-> store, creator_id |-> cid, updater_id |-> uid,
     creator_info |-> cinfo, updater_info |-> uinfo]

\* the row of the info script: the arguments of _create_data_row
DataRow(app, qapp) == [app |-> app, qapp |-> qapp]

\* lines 463-464
CreatorId(qapp) == IF HasQApp(qapp) THEN Get(qapp, "createdBy", "N/A") ELSE "N/A"

UpdaterId(qapp) == IF HasQApp(qapp) THEN Get(qapp, "updatedBy", "N/A") ELSE "N/A"

\* where the loops go after a row: the next app child, or the next parent
AfterRow ==
    IF qapps # <<>> /\ qapp_i < Len(qapps)
    THEN /\ qapp_i' = qapp_i + 1
         /\ UNCHANGED <<pc, app_i, fetched>>
    ELSE /\ pc' = LoopNext(app_i, Len(applications))
         /\ app_i' = IF app_i < Len(applications) THEN app_i + 1 ELSE app_i
         /\ fetched' = {}
         /\ UNCHANGED qapp_i

\* one pass of `for qapp in qapps` (or the `elif include_empty` branch) of
\* export_all_data: _create_global_row and all_data.append(row)
EmitGlobalRow ==
    /\ pc = "rows"
    /\ variant = "enhanced"
    /\ EmitsRows(qapps, include_empty)
    /\ LET qapp == RowQApp(qapps, qapp_i)
           cid  == CreatorId(qapp)
           uid  == UpdaterId(qapp)
       IN \E dc \in DescribeResponses(cid), du \in DescribeResponses(uid) :
            LET c == GetUserDetails(user_cache, identity_store_id, cid, dc)
                u == GetUserDetails(c.cache, identity_store_id, uid, du)
                cfail == c.called /\ dc.err
                ufail == u.called /\ du.err
                cost == (IF cfail THEN 1 ELSE 0) + (IF ufail THEN 1 ELSE 0)
                n1 == IF c.called THEN [remote.describe EXCEPT ![cid] = @ + 1]
                      ELSE remote.describe
                n2 == IF u.called THEN [n1 EXCEPT ![uid] = @ + 1] ELSE n1
            IN /\ cost <= budget
               \* an answer that is never asked for is not a different run
               /\ ~c.called => dc = DescribeOk(cid)
               /\ ~u.called => du = DescribeOk(uid)
               /\ budget' = budget - cost
               /\ user_cache' = u.cache
               /\ remote' = [(IF cfail \/ ufail THEN NoteFault(remote, app_i)
                              ELSE remote)
                             EXCEPT !.describe = n2,
                                    !.failed = @ \cup (IF cfail THEN {cid} ELSE {})
                                                 \cup (IF ufail THEN {uid} ELSE {})]
               /\ all_data' = Append(all_data,
                     GlobalRow(App, qapp, data_sources, retrievers, plugins,
                               index_id, chat_controls, identity_store_id,
                               cid, uid, c.info, u.info))
    /\ AfterRow
    /\ UNCHANGED <<variant, call, output, threads, include_empty, applications, identity_store_id,
                   index_id, qapps, data_sources, retrievers, plugins,
                   chat_controls, col, obs>>

\* the same pass of retrieve_all_data: _create_data_row and append
EmitDataRow ==
    /\ pc = "rows"
    /\ variant = "info"
    /\ EmitsRows(qapps, include_empty)
    /\ all_data' = Append(all_data, DataRow(App, RowQApp(qapps, qapp_i)))
    /\ AfterRow
    /\ UNCHANGED <<variant, call, output, threads, include_empty, applications, identity_store_id,
                   user_cache, index_id, qapps, data_sources, retrievers,
                   plugins, chat_controls, col, obs, remote, budget>>

\* neither branch of the if/elif is taken: the parent gets no row
NoRow ==
    /\ pc = "rows"
    /\ ~EmitsRows(qapps, include_empty)
    /\ pc' = LoopNext(app_i, Len(applications))
    /\ app_i' = IF app_i < Len(applications) THEN app_i + 1 ELSE app_i
    /\ fetched' = {}
    /\ UNCHANGED <<variant, call, output, threads, include_empty, applications, identity_store_id,
                   user_cache, index_id, qapps, data_sources, retrievers,
                   plugins, chat_controls, qapp_i, all_data, col, obs,
                   remote, budget>>

Init ==
    /\ variant \in Variants
    /\ include_empty \in BOOLEAN
    /\ pc = "start"
    /\ applications = <<>>
    /\ app_i = 0
    /\ identity_store_id = None
    /\ user_cache = EmptyDict
    /\ index_id = None
    /\ qapps = <<>>
    /\ data_sources = <<>>
    /\ retrievers = <<>>
    /\ plugins = <<>>
    /\ chat_controls = EmptyDict
    /\ qapp_i = 0
    /\ all_data = <<>>
    /\ fetched = {}
    /\ col = IdleCol
    /\ obs = IdleObs
    /\ remote = NoRemote
    /\ budget = MaxDeviations
    /\ call = NoCall
    /\ output = NoOutput
    /\ threads = <<>>

Next ==
    \/ ListApplicationsCall
    \/ ListApplicationsReturn
    \/ ColList
    \/ ColGet
    \/ Discover
    \/ ListIndices
    \/ GetQAppsCall
    \/ GetQAppsReturn
    \/ GetDataSourcesCall
    \/ GetDataSourcesReturn
    \/ GetRetrieversCall
    \/ GetRetrieversReturn
    \/ GetPluginsCall
    \/ GetPluginsReturn
    \/ GetChatControls
    \/ EmitGlobalRow
    \/ EmitDataRow
    \/ NoRow

Spec == Init /\ [][Next]_vars

----------------------------------------------------------------------------
(* Rows as columns: _create_global_row (enhanced), _create_data_row (info). *)
(* A row is the sequence of its <<key, value>> pairs, in the order Python   *)
(* keeps the keys of the dict.                                              *)

RECURSIVE JoinReversed(_, _)
\* the strings are joined last to first
JoinReversed(strings, sep) ==
    IF strings = <<>> THEN ""
    ELSE IF Len(strings) = 1 THEN strings[1]
    ELSE JoinReversed(Tail(strings), sep) \o sep \o strings[1]

RECURSIVE Join(_, _)
\* sep.join(strings)
Join(strings, sep) ==
    IF strings = <<>> THEN ""
    ELSE IF Len(strings) = 1 THEN strings[1]
    ELSE strings[1] \o sep \o Join(Tail(strings), sep)

\* [x.get(key, default) for x in items]
Project(items, key, default) == [i \in 1..Len(items) |-> Get(items[i], key, default)]

\* str(d.get(key)): the text of None when the field is absent
StrOfGetNone(d, key) == IF key \in DOMAIN d THEN "ts-" \o ToString(d[key]) ELSE "None"

\* str(d.get(key, 'N/A')) for a timestamp field: the text of the timestamp,
\* 'N/A' when the field is absent
StrOfGet(d, key) == IF key \in DOMAIN d THEN "ts-" \o ToString(d[key]) ELSE "N/A"

\* x or 'N/A', for a string-or-None
OrNA(x) == IF Truthy(x) THEN x ELSE "N/A"

Keys(row) == [i \in 1..Len(row) |-> row[i][1]]

RECURSIVE DictUpdate(_, _)
\* row.update(pairs): a key the dict has keeps its place and takes the new
\* value, a new key goes to the end
DictUpdate(row, pairs) ==
    IF pairs = <<>> THEN row
    ELSE LET k == pairs[1][1]
             hit == {i \in 1..Len(row) : row[i][1] = k}
             put == IF hit = {} THEN Append(row, pairs[1])
                    ELSE [i \in 1..Len(row) |-> IF i \in hit THEN pairs[1] ELSE row[i]]
         IN  DictUpdate(put, Tail(pairs))

\* the Q App columns of _create_global_row, lines 470-497
GlobalQAppColumns(r) ==
    LET q == r.qapp
        has == HasQApp(q)
    IN << <<"qapp_name", IF has THEN "Q App " \o Get(q, "libraryItemId", "Unknown")
                         ELSE "No Q Apps">>,
          <<"qapp_id", IF has THEN Get(q, "appId", "N/A") ELSE "N/A">>,
          <<"qapp_library_item_id", IF has THEN Get(q, "libraryItemId", "N/A") ELSE "N/A">>,
          <<"qapp_version", IF has THEN Get(q, "appVersion", "N/A") ELSE "N/A">>,
          <<"qapp_status", IF has THEN Get(q, "status", "N/A") ELSE "N/A">>,
          <<"qapp_user_count", IF has THEN Get(q, "userCount", 0) ELSE 0>>,
          <<"qapp_creator_user_id", r.creator_id>>,
          <<"qapp_creator_username", r.creator_info.username>>,
          <<"qapp_creator_email", r.creator_info.email>>,
          <<"qapp_creator_display_name", r.creator_info.display_name>>,
          <<"qapp_created_at", IF has THEN StrOfGet(q, "createdAt") ELSE "N/A">>,
          <<"qapp_updater_user_id", r.updater_id>>,
          <<"qapp_updater_username", r.updater_info.username>>,
          <<"qapp_updater_email", r.updater_info.email>>,
          <<"qapp_updated_at", IF has THEN StrOfGet(q, "updatedAt") ELSE "N/A">>,
          <<"qapp_rating_count", IF has THEN Get(q, "ratingCount", 0) ELSE 0>>,
          <<"qapp_is_verified", IF has THEN Get(q, "isVerified", FALSE) ELSE FALSE>>,
          <<"qapp_is_rated_by_user", IF has THEN Get(q, "isRatedByUser", FALSE) ELSE FALSE>>,
          <<"qapp_description", IF has THEN Get(q, "description", "N/A") ELSE "N/A">>,
          <<"qapp_categories",
            IF has THEN Join(Project(Get(q, "categories", <<>>), "title", ""), ", ")
            ELSE "N/A">> >>

\* the application columns, lines 499-523
GlobalAppColumns(r) ==
    LET app == r.app
    IN << <<"app_name", Get(app, "displayName", "N/A")>>,
          <<"app_id", Get(app, "applicationId", "N/A")>>,
          <<"app_arn", Get(app, "applicationArn", "N/A")>>,
          <<"app_description", Get(app, "description", "N/A")>>,
          <<"app_status", Get(app, "status", "N/A")>>,
          <<"app_created_at", StrOfGet(app, "createdAt")>>,
          <<"app_updated_at", StrOfGet(app, "updatedAt")>>,
          <<"identity_type", Get(app, "identityType", "N/A")>>,
          <<"identity_center_arn", Get(app, "identityCenterApplicationArn", "N/A")>>,
          <<"identity_store_id", OrNA(r.identity_store_id)>>,
          <<"iam_identity_provider_arn", Get(app, "iamIdentityProviderArn", "N/A")>>,
          <<"client_ids_for_oidc", Join(Get(app, "clientIdsForOIDC", <<>>), ", ")>>,
          <<"role_arn", Get(app, "roleArn", "N/A")>>,
          <<"encryption_kms_key",
            Get(Get(app, "encryptionConfiguration", EmptyDict), "kmsKeyId", "AWS Managed")>>,
          <<"attachments_mode",
            Get(Get(app, "attachmentsConfiguration", EmptyDict), "attachmentsControlMode", "N/A")>>,
          <<"auto_subscribe",
            Get(Get(app, "autoSubscriptionConfiguration", EmptyDict), "autoSubscribe", "N/A")>>,
          <<"auto_subscribe_default",
            Get(Get(app, "autoSubscriptionConfiguration", EmptyDict), "defaultSubscriptionType", "N/A")>>,
          <<"personalization_mode",
            Get(Get(app, "personalizationConfiguration", EmptyDict), "personalizationControlMode", "N/A")>>,
          <<"qapps_mode",
            Get(Get(app, "qAppsConfiguration", EmptyDict), "qAppsControlMode", "N/A")>>,
          <<"quicksight_namespace",
            Get(Get(app, "quickSightConfiguration", EmptyDict), "clientNamespace", "N/A")>> >>

\* `chat_controls.get(key, default) if chat_controls else default`
ChatGet(chat, key, default) ==
    IF DOMAIN chat # {} THEN Get(chat, key, default) ELSE default

\* "name: description" of one topic configuration
TopicLine(t) == Get(t, "name", "N/A") \o ": " \o Get(t, "description", "N/A")

\* the chat-control columns, lines 525-539
GlobalChatColumns(r) ==
    LET chat == r.chat_controls
        blocked == ChatGet(chat, "blockedPhrases", EmptyDict)
        topics == ChatGet(chat, "topicConfigurations", <<>>)
    IN << <<"blocked_phrases_count", Len(Get(blocked, "blockedPhrases", <<>>))>>,
          <<"blocked_phrases", Join(Get(blocked, "blockedPhrases", <<>>), "; ")>>,
          <<"blocked_phrases_system_message", Get(blocked, "systemMessageOverride", "N/A")>>,
          <<"creator_mode_control",
            Get(ChatGet(chat, "creatorModeConfiguration", EmptyDict), "creatorModeControl", "N/A")>>,
          <<"hallucination_reduction_control",
            Get(ChatGet(chat, "hallucinationReductionConfiguration", EmptyDict),
                "hallucinationReductionControl", "N/A")>>,
          <<"orchestration_control",
            Get(ChatGet(chat, "orchestrationConfiguration", EmptyDict), "control", "N/A")>>,
          <<"response_scope", ChatGet(chat, "responseScope", "N/A")>>,
          <<"topic_count", Len(topics)>>,
          <<"topic_names", Join(Project(topics, "name", "N/A"), ", ")>>,
          <<"topic_descriptions",
            Join([i \in 1..Len(topics) |-> TopicLine(topics[i])], " | ")>> >>

\* error, index, collection summaries and metadata, lines 541-571
GlobalCollectionColumns(r) ==
    << <<"error_code", Get(Get(r.app, "error", EmptyDict), "errorCode", "N/A")>>,
       <<"error_message", Get(Get(r.app, "error", EmptyDict), "errorMessage", "N/A")>>,
       <<"index_id", OrNA(r.index_id)>>,
       <<"data_source_count", Len(r.data_sources)>>,
       <<"data_source_ids", Join(Project(r.data_sources, "dataSourceId", "N/A"), ", ")>>,
       <<"data_source_types", Join(Project(r.data_sources, "type", "N/A"), ", ")>>,
       <<"data_source_names", Join(Project(r.data_sources, "displayName", "N/A"), ", ")>>,
       <<"data_source_statuses", Join(Project(r.data_sources, "status", "N/A"), ", ")>>,
       <<"retriever_count", Len(r.retrievers)>>,
       <<"retriever_ids", Join(Project(r.retrievers, "retrieverId", "N/A"), ", ")>>,
       <<"retriever_types", Join(Project(r.retrievers, "type", "N/A"), ", ")>>,
       <<"retriever_statuses", Join(Project(r.retrievers, "status", "N/A"), ", ")>>,
       <<"plugin_count", Len(r.plugins)>>,
       <<"plugin_ids", Join(Project(r.plugins, "pluginId", "N/A"), ", ")>>,
       <<"plugin_types", Join(Project(r.plugins, "type", "N/A"), ", ")>>,
       <<"plugin_statuses", Join(Project(r.plugins, "status", "N/A"), ", ")>>,
       <<"export_timestamp", "now">>,
       <<"aws_region", "us-east-1">>,
       <<"aws_account", "N/A">> >>

\* the dict literal of _create_global_row
GlobalRowColumns(r) ==
    GlobalQAppColumns(r) \o GlobalAppColumns(r) \o GlobalChatColumns(r)
    \o GlobalCollectionColumns(r)

\* the Q App columns of _create_global_row of get_qbusiness_global.py: the
\* title of the hydrated item is the name, and the creator and updater are
\* the ids as listed
BasicQAppColumns(r) ==
    LET q == r.qapp
        has == HasQApp(q)
    IN << <<"qapp_name", IF has THEN Get(q, "title", Get(q, "libraryItemId", "No Q Apps"))
                         ELSE "No Q Apps">>,
          <<"qapp_id", IF has THEN Get(q, "appId", "N/A") ELSE "N/A">>,
          <<"qapp_library_item_id", IF has THEN Get(q, "libraryItemId", "N/A") ELSE "N/A">>,
          <<"qapp_version", IF has THEN Get(q, "appVersion", "N/A") ELSE "N/A">>,
          <<"qapp_status", IF has THEN Get(q, "status", "N/A") ELSE "N/A">>,
          <<"qapp_user_count", IF has THEN Get(q, "userCount", 0) ELSE 0>>,
          <<"qapp_owner_created_by", IF has THEN Get(q, "createdBy", "N/A") ELSE "N/A">>,
          <<"qapp_created_at", IF has THEN StrOfGet(q, "createdAt") ELSE "N/A">>,
          <<"qapp_updated_by", IF has THEN Get(q, "updatedBy", "N/A") ELSE "N/A">>,
          <<"qapp_updated_at", IF has THEN StrOfGet(q, "updatedAt") ELSE "N/A">>,
          <<"qapp_rating_count", IF has THEN Get(q, "ratingCount", 0) ELSE 0>>,
          <<"qapp_is_verified", IF has THEN Get(q, "isVerified", FALSE) ELSE FALSE>>,
          <<"qapp_is_rated_by_user", IF has THEN Get(q, "isRatedByUser", FALSE) ELSE FALSE>>,
          <<"qapp_description", IF has THEN Get(q, "description", "N/A") ELSE "N/A">>,
          <<"qapp_categories",
            IF has THEN Join(Project(Get(q, "categories", <<>>), "title", ""), ", ")
            ELSE "N/A">> >>

\* its application columns: those of the enhanced script but identity_store_id
BasicAppColumns(r) ==
    SelectSeq(GlobalAppColumns(r), LAMBDA kv : kv[1] # "identity_store_id")

\* the dict literal of _create_global_row of get_qbusiness_global.py
BasicRowColumns(r) ==
    BasicQAppColumns(r) \o BasicAppColumns(r) \o GlobalChatColumns(r)
    \o GlobalCollectionColumns(r)

\* _create_data_row: the application part of the literal, lines 296-305
DataRowBase(app) ==
    << <<"qbusiness_app_name",
         Get(app, "displayName", Get(app, "applicationId", "N/A"))>>,
       <<"qbusiness_app_id", Get(app, "applicationId", "N/A")>>,
       <<"qbusiness_status", Get(app, "status", "N/A")>>,
       <<"qbusiness_identity_type", Get(app, "identityType", "N/A")>>,
       <<"qbusiness_created_at", StrOfGet(app, "createdAt")>>,
       <<"qbusiness_updated_at", StrOfGet(app, "updatedAt")>>,
       <<"qbusiness_encryption",
         Get(Get(app, "encryptionConfiguration", EmptyDict), "kmsKeyId", "AWS Managed")>> >>

\* the update of the `if qapp` branch, lines 309-329
DataRowQApp(q) ==
    << <<"qapp_name", Get(q, "title", Get(q, "libraryItemId", "N/A"))>>,
       <<"qapp_library_item_id", Get(q, "libraryItemId", "N/A")>>,
       <<"qapp_id", Get(q, "appId", "N/A")>>,
       <<"qapp_version", Get(q, "appVersion", "N/A")>>,
       <<"qapp_status", Get(q, "status", "N/A")>>,
       <<"user_count", Get(q, "userCount", 0)>>,
       <<"owner_created_by", Get(q, "createdBy", "N/A")>>,
       <<"created_at", StrOfGet(q, "createdAt")>>,
       <<"updated_by", Get(q, "updatedBy", "N/A")>>,
       <<"updated_at", StrOfGet(q, "updatedAt")>>,
       <<"rating_count", Get(q, "ratingCount", 0)>>,
       <<"is_verified", Get(q, "isVerified", FALSE)>>,
       <<"is_rated_by_user", Get(q, "isRatedByUser", FALSE)>>,
       <<"description", Get(q, "description", "N/A")>>,
       <<"categories", Join(Project(Get(q, "categories", <<>>), "title", ""), ", ")>> >>


\* the else branch leaves out a key the if branch sets
DataRowNoQAppShort ==
    << <<"qapp_name", "No Q Apps">>,
       <<"qapp_library_item_id", "N/A">>,
       <<"qapp_id", "N/A">>,
       <<"qapp_version", "N/A">>,
       <<"qapp_status", "N/A">>,
       <<"user_count", 0>>,
       <<"owner_created_by", "N/A">>,
       <<"created_at", "N/A">>,
       <<"updated_by", "N/A">>,
       <<"updated_at", "N/A">>,
       <<"rating_count", 0>>,
       <<"is_verified", FALSE>>,
       <<"description", "N/A">>,
       <<"categories", "N/A">> >>

\* the update of the else branch, lines 332-348
DataRowNoQApp ==
    << <<"qapp_name", "No Q Apps">>,
       <<"qapp_library_item_id", "N/A">>,
       <<"qapp_id", "N/A">>,
       <<"qapp_version", "N/A">>,
       <<"qapp_status", "N/A">>,
       <<"user_count", 0>>,
       <<"owner_created_by", "N/A">>,
       <<"created_at", "N/A">>,
       <<"updated_by", "N/A">>,
       <<"updated_at", "N/A">>,
       <<"rating_count", 0>>,
       <<"is_verified", FALSE>>,
       <<"is_rated_by_user", FALSE>>,
       <<"description", "N/A">>,
       <<"categories", "N/A">> >>

\* the metadata update, lines 351-355
DataRowMeta ==
    << <<"retrieval_timestamp", "now">>,
       <<"aws_region", "us-east-1">>,
       <<"aws_account", "N/A">> >>

\* _create_data_row(app, qapp)
DataRowColumns(r) ==
    DictUpdate(
        DictUpdate(DataRowBase(r.app),
                   IF HasQApp(r.qapp) THEN DataRowQApp(r.qapp) ELSE DataRowNoQApp),
        DataRowMeta)

\* the columns of a row of all_data, by the script that made it
Columns(r) ==
    IF "creator_info" \in DOMAIN r THEN GlobalRowColumns(r) ELSE DataRowColumns(r)

----------------------------------------------------------------------------
(* The harness: collector calls on their own, against the free service *)

HarnessCall ==
    /\ variant = "harness"
    /\ col.pc = "idle"
    /\ \E kind \in Kinds, hydrate \in BOOLEAN :
         col' = StartCol(kind, "app1", hydrate)
    /\ obs' = IdleObs
    /\ UNCHANGED <<variant, call, output, threads, pc, pipeVars, remote, budget>>

HarnessReturn ==
    /\ variant = "harness"
    /\ col.pc = "ret"
    /\ col' = IdleCol
    /\ obs' = IdleObs
    /\ UNCHANGED <<variant, call, output, threads, pc, pipeVars, remote, budget>>

InitPipeVars ==
    /\ applications = <<>>
    /\ app_i = 0
    /\ identity_store_id = None
    /\ user_cache = EmptyDict
    /\ index_id = None
    /\ qapps = <<>>
    /\ data_sources = <<>>
    /\ retrievers = <<>>
    /\ plugins = <<>>
    /\ chat_controls = EmptyDict
    /\ qapp_i = 0
    /\ all_data = <<>>
    /\ fetched = {}

InitCollector ==
    /\ variant = "harness"
    /\ include_empty = TRUE
    /\ pc = "harness"
    /\ InitPipeVars
    /\ col = IdleCol
    /\ obs = IdleObs
    /\ remote = NoRemote
    /\ budget = 0
    /\ call = NoCall
    /\ output = NoOutput
    /\ threads = <<>>

NextCollector == HarnessCall \/ ColList \/ ColGet \/ HarnessReturn

SpecCollector == InitCollector /\ [][NextCollector]_vars

\* a call of get_plugins or get_qapps of the enhanced script
HarnessCallEnhanced ==
    /\ variant = "harness"
    /\ col.pc = "idle"
    /\ \E kind \in {"plugins", "qapps"} :
         col' = StartCol(kind, "app1", Hydrates("enhanced", kind))
    /\ obs' = IdleObs
    /\ UNCHANGED <<variant, call, output, threads, pc, pipeVars, remote, budget>>

NextCollectorEnhanced ==
    HarnessCallEnhanced \/ ColList \/ ColGet \/ HarnessReturn

\* the loop of a collector is sequential code: it goes on as soon as the
\* remote call it waits for has answered
SpecCollectorFair ==
    InitCollector /\ [][NextCollectorEnhanced]_vars
    /\ WF_vars(ColList) /\ WF_vars(ColGet)

----------------------------------------------------------------------------
(* Calls of one helper function on any argument *)

\* an entry of Emails at position i: Primary absent, false or true, Value
\* absent or present
EmailEntries(i) ==
    LET v == "Value" :> ("e" \o ToString(i))
    IN  { EmptyDict, v,
          "Primary" :> FALSE, ("Primary" :> FALSE) @@ v,
          "Primary" :> TRUE, ("Primary" :> TRUE) @@ v }

\* the Emails lists of up to MaxEmails entries
EmailLists ==
    UNION { { e \in [1..n -> UNION {EmailEntries(i) : i \in 1..n}] :
                \A i \in 1..n : e[i] \in EmailEntries(i) } : n \in 0..MaxEmails }

\* describe_user responses: no Emails key, or any Emails list
UserResponses ==
    {[UserName |-> "name"]}
    \cup {[UserName |-> "name", Emails |-> e] : e \in EmailLists}

InitIdle ==
    /\ include_empty = TRUE
    /\ output = NoOutput
    /\ threads = <<>>
    /\ InitPipeVars
    /\ col = IdleCol
    /\ obs = IdleObs
    /\ remote = NoRemote
    /\ budget = 0

InitExtractEmail ==
    /\ variant = "unit"
    /\ pc = "unit"
    /\ InitIdle
    /\ \E r \in UserResponses :
         call = [fn |-> "_extract_email", arg |-> r, done |-> FALSE, ret |-> None]

\* self._extract_email(response)
ExtractEmailCall ==
    /\ call.fn = "_extract_email"
    /\ ~call.done
    /\ call' = [call EXCEPT !.done = TRUE, !.ret = ExtractEmail(call.arg)]
    /\ UNCHANGED <<variant, output, threads, pc, pipeVars, col, obs, remote, budget>>

NextExtractEmail == ExtractEmailCall

SpecExtractEmail == InitExtractEmail /\ [][NextExtractEmail]_vars

\* what a nested field of an argument of _create_global_row can be: not
\* there, there with null, there with a value of another shape (a non-empty
\* string), or there as the service documents it
Shapes == {"absent", "null", "wrong", "ok"}

\* the arguments tried: with or without app child, with chat controls or
\* with {}, and the four nested fields in every shape
FlattenArgs ==
    [qapp : BOOLEAN, chat : BOOLEAN, encryptionConfiguration : Shapes,
     blockedPhrases : Shapes, categories : Shapes,
     topicConfigurations : Shapes]

\* d.get(key, {}).get(...) raises AttributeError when d[key] is None or a
\* string: the default only stands in for a key that is absent
DictReadRaises(shape) == shape \in {"null", "wrong"}

\* len(x) and `for t in x: t.get(...)` raise TypeError on None and
\* AttributeError on the characters of a string
ListReadRaises(shape) == shape \in {"null", "wrong"}

\* the reads of _create_global_row that raise for these arguments
CreateGlobalRowRaises(a) ==
    \/ DictReadRaises(a.encryptionConfiguration)
    \/ a.chat /\ DictReadRaises(a.blockedPhrases)
    \/ a.chat /\ ListReadRaises(a.topicConfigurations)
    \/ a.qapp /\ ListReadRaises(a.categories)

WithField(d, key, shape, value) ==
    IF shape = "ok" THEN d @@ (key :> value) ELSE d

ArgApp(a) ==
    WithField(AppSummary(1), "encryptionConfiguration",
              a.encryptionConfiguration, [kmsKeyId |-> "key-1"])

ArgQApp(a) ==
    IF a.qapp
    THEN WithField(QAppA(AppName(1)), "categories", a.categories,
                   <<[title |-> "HR"], [title |-> "IT"]>>)
    ELSE NoQApp

ArgChat(a) ==
    IF a.chat
    THEN WithField(
            WithField([responseScope |-> "ENTERPRISE_CONTENT_ONLY"],
                      "blockedPhrases", a.blockedPhrases,
                      [blockedPhrases |-> <<"secret">>]),
            "topicConfigurations", a.topicConfigurations,
            <<[name |-> "topic", description |-> "text"]>>)
    ELSE EmptyDict

\* _create_global_row on these arguments: the exception, or the row
CreateGlobalRow(a) ==
    IF CreateGlobalRowRaises(a)
    THEN [raised |-> TRUE, row |-> <<>>]
    ELSE LET qapp == ArgQApp(a)
             cid == CreatorId(qapp)
             uid == UpdaterId(qapp)
         IN  [raised |-> FALSE,
              row |-> GlobalRowColumns(
                        GlobalRow(ArgApp(a), qapp, <<>>, <<>>, <<>>, None,
                                  ArgChat(a), None, cid, uid,
                                  Placeholder(cid), Placeholder(uid)))]

InitFlatten ==
    /\ variant = "unit"
    /\ pc = "unit"
    /\ InitIdle
    /\ \E a \in FlattenArgs :
         call = [fn |-> "_create_global_row", arg |-> a, done |-> FALSE,
                 ret |-> None]

\* self._create_global_row(app, qapp, ..., chat_controls)
CreateGlobalRowCall ==
    /\ call.fn = "_create_global_row"
    /\ ~call.done
    /\ call' = [call EXCEPT !.done = TRUE, !.ret = CreateGlobalRow(call.arg)]
    /\ UNCHANGED <<variant, output, threads, pc, pipeVars, col, obs, remote, budget>>

NextFlatten == CreateGlobalRowCall

SpecFlatten == InitFlatten /\ [][NextFlatten]_vars


\* -- the flattening functions on records with any field absent --

\* the scalar fields of an application the rows read, as paths
AppFields ==
    { <<"displayName">>, <<"applicationId">>, <<"applicationArn">>,
      <<"description">>, <<"status">>, <<"createdAt">>, <<"updatedAt">>,
      <<"identityType">>, <<"identityCenterApplicationArn">>,
      <<"iamIdentityProviderArn">>, <<"roleArn">>,
      <<"encryptionConfiguration", "kmsKeyId">>,
      <<"attachmentsConfiguration", "attachmentsControlMode">>,
      <<"autoSubscriptionConfiguration", "autoSubscribe">>,
      <<"autoSubscriptionConfiguration", "defaultSubscriptionType">>,
      <<"personalizationConfiguration", "personalizationControlMode">>,
      <<"qAppsConfiguration", "qAppsControlMode">>,
      <<"quickSightConfiguration", "clientNamespace">>,
      <<"error", "errorCode">>, <<"error", "errorMessage">> }

\* those of a library item
QAppFields ==
    { <<"title">>, <<"libraryItemId">>, <<"appId">>, <<"appVersion">>,
      <<"status">>, <<"userCount">>, <<"createdBy">>, <<"createdAt">>,
      <<"updatedBy">>, <<"updatedAt">>, <<"ratingCount">>, <<"isVerified">>,
      <<"isRatedByUser">>, <<"description">> }

\* those of the chat controls
ChatFields ==
    { <<"responseScope">>,
      <<"blockedPhrases", "systemMessageOverride">>,
      <<"creatorModeConfiguration", "creatorModeControl">>,
      <<"hallucinationReductionConfiguration", "hallucinationReductionControl">>,
      <<"orchestrationConfiguration", "control">> }

SourceFields ==
    {<<"app">> \o f : f \in AppFields}
    \cup {<<"qapp">> \o f : f \in QAppFields}
    \cup {<<"chat">> \o f : f \in ChatFields}

\* the value the service gives a field: a number for counts and timestamps,
\* a boolean for flags, a principal for createdBy/updatedBy, else a string
SampleValue(key) ==
    CASE key \in {"userCount", "ratingCount"}     -> 7
      [] key \in {"createdAt", "updatedAt"}       -> 5
      [] key \in {"isVerified", "isRatedByUser"}  -> TRUE
      [] key \in {"createdBy", "updatedBy"}       -> "u1"
      [] OTHER                                    -> "v-" \o key

\* the dict of an object that has exactly the fields `present` names for it
DictOf(obj, present) ==
    LET paths == {Tail(p) : p \in {q \in present : q[1] = obj}}
    IN  [k \in {p[1] : p \in paths} |->
            IF <<k>> \in paths THEN SampleValue(k)
            ELSE [sub \in {p[2] : p \in {q \in paths : q[1] = k}}
                    |-> SampleValue(sub)]]

RECURSIVE SubsetsUpTo(_, _)
\* the subsets of F of at most n elements
SubsetsUpTo(F, n) ==
    IF n = 0 THEN {{}}
    ELSE LET prev == SubsetsUpTo(F, n - 1)
         IN  prev \cup {S \cup {f} : S \in prev, f \in F}

\* the records tried: all fields but a few absent, or all but a few present
PresentSets ==
    SubsetsUpTo(SourceFields, MaxFlips)
    \cup {SourceFields \ S : S \in SubsetsUpTo(SourceFields, MaxFlips)}

Scripts == {"enhanced", "global", "info"}

ProjectArgs ==
    [script : Scripts, child : BOOLEAN, store : {None, "d-1"},
     present : PresentSets]

\* the flattening function of a script on the records `a` describes:
\* _create_global_row (enhanced, global) or _create_data_row (info), without
\* collections and without index
CreateRow(a) ==
    LET app  == DictOf("app", a.present)
        qapp == IF a.child THEN DictOf("qapp", a.present) ELSE NoQApp
        chat == DictOf("chat", a.present)
        cid  == CreatorId(qapp)
        uid  == UpdaterId(qapp)
        c    == GetUserDetails(EmptyDict, a.store, cid, DescribeOk(cid))
        u    == GetUserDetails(c.cache, a.store, uid, DescribeOk(uid))
        r    == GlobalRow(app, qapp, <<>>, <<>>, <<>>, None, chat, a.store,
                          cid, uid, c.info, u.info)
    IN  CASE a.script = "enhanced" -> GlobalRowColumns(r)
          [] a.script = "global"   -> BasicRowColumns(r)
          [] a.script = "info"     -> DataRowColumns(DataRow(app, qapp))

InitProject ==
    /\ variant = "unit"
    /\ pc = "unit"
    /\ InitIdle
    /\ \E a \in ProjectArgs :
         /\ a.script # "enhanced" => a.store = None
         /\ call = [fn |-> "create_row", arg |-> a, done |-> FALSE, ret |-> None]

\* row = self._create_global_row(...) / self._create_data_row(app, qapp)
CreateRowCall ==
    /\ call.fn = "create_row"
    /\ ~call.done
    /\ call' = [call EXCEPT !.done = TRUE, !.ret = CreateRow(call.arg)]
    /\ UNCHANGED <<variant, output, threads, pc, pipeVars, col, obs, remote, budget>>

NextProject == CreateRowCall

SpecProject == InitProject /\ [][NextProject]_vars


\* -- the exports: export_to_csv, then export_to_json, as main() calls them --

\* all_fieldnames of export_to_csv of get_qapps_info.py
AllFieldnames ==
    << "qapp_name", "user_count", "owner_created_by",
       "qbusiness_app_name", "qbusiness_app_id", "qbusiness_status",
       "qbusiness_identity_type", "qbusiness_created_at", "qbusiness_updated_at",
       "qbusiness_encryption", "qapp_library_item_id", "qapp_id",
       "qapp_version", "qapp_status", "created_at", "updated_by", "updated_at",
       "rating_count", "is_verified", "is_rated_by_user",
       "description", "categories",
       "retrieval_timestamp", "aws_region", "aws_account" >>

\* a dict kept as the sequence of its <<key, value>> pairs: d.get(key, default)
PairsGet(pairs, key, default) ==
    IF \E n \in 1..Len(pairs) : pairs[n][1] = key
    THEN pairs[CHOOSE n \in 1..Len(pairs) : pairs[n][1] = key][2]
    ELSE default

\* a column is written only if the configuration names it with true
InfoFieldnamesAllowOnly(column_config) ==
    IF column_config # <<>>
    THEN SelectSeq(AllFieldnames, LAMBDA c : PairsGet(column_config, c, FALSE))
    ELSE AllFieldnames

\* `[col for col in all_fieldnames if column_config.get(col, True)]` when
\* there is a column configuration, all_fieldnames when there is none
InfoFieldnames(column_config) ==
    IF column_config # <<>>
    THEN SelectSeq(AllFieldnames, LAMBDA c : PairsGet(column_config, c, TRUE))
    ELSE AllFieldnames

\* every script takes the fixed column list
FieldnamesAlwaysFixed(script, data, column_config) ==
    InfoFieldnames(column_config)

\* the fieldnames the DictWriter is given: list(data[0].keys()) in the global
\* scripts, the configured columns in get_qapps_info.py
Fieldnames(script, data, column_config) ==
    IF script = "info" THEN InfoFieldnames(column_config) ELSE Keys(data[1])

\* the columns that hold a number, and those that hold a flag
CountKeys ==
    {"qapp_user_count", "qapp_rating_count", "user_count", "rating_count",
     "blocked_phrases_count", "topic_count", "data_source_count",
     "retriever_count", "plugin_count"}

BoolKeys ==
    {"qapp_is_verified", "qapp_is_rated_by_user", "is_verified", "is_rated_by_user"}

\* the text csv writes for a value: str(v)
CsvCell(key, v) ==
    IF key \in CountKeys THEN ToString(v)
    ELSE IF key \in BoolKeys THEN (IF v THEN "True" ELSE "False")
    ELSE v

\* DictWriter._dict_to_list: the cells of a record in fieldnames order, ''
\* (restval) for a key the record has not
CsvLine(fieldnames, row) ==
    [n \in 1..Len(fieldnames) |->
        IF \E m \in 1..Len(row) : row[m][1] = fieldnames[n]
        THEN CsvCell(fieldnames[n], PairsGet(row, fieldnames[n], ""))
        ELSE ""]

\* what makes the body of the try block raise: data[0] of no data, and, with
\* extrasaction='raise' (the default the global scripts leave), a record with
\* a key that is no fieldname
CsvRaises(script, data, column_config) ==
    /\ script # "info"
    /\ \/ data = <<>>
       \/ \E i \in 1..Len(data) : \E n \in 1..Len(data[i]) :
            \A m \in 1..Len(data[1]) : data[1][m][1] # data[i][n][1]

\* the file export_to_csv writes
CsvFile(script, data, column_config, include_headers) ==
    LET fieldnames == Fieldnames(script, data, column_config)
    IN  [kind |-> "csv", fieldnames |-> fieldnames,
         header |-> IF script = "info" THEN include_headers ELSE TRUE,
         lines |-> [i \in 1..Len(data) |-> CsvLine(fieldnames, data[i])]]

\* the export goes on without data
ExportSkipsNever(data) == FALSE

\* `if not data: return` at the head of export_to_csv and export_to_json
ExportSkips(data) == data = <<>>

\* the text json.dump writes for a value
JsonText(key, v) ==
    IF key \in CountKeys THEN ToString(v)
    ELSE IF key \in BoolKeys THEN (IF v THEN "true" ELSE "false")
    ELSE "\"" \o v \o "\""

\* the JSON export keeps the columns the CSV configuration keeps
JsonRecordsFiltered(a) ==
    [i \in 1..Len(a.data) |->
        SelectSeq(a.data[i],
                  LAMBDA kv : \E n \in 1..Len(InfoFieldnames(a.columns)) :
                                 InfoFieldnames(a.columns)[n] = kv[1])]

\* the records export_to_json dumps: `json.dump(data, ...)`
JsonRecords(a) == a.data

\* the file export_to_json writes: one object per record, its members in the
\* order of the record's keys
JsonFile(records) ==
    [kind |-> "json",
     objects |-> [i \in 1..Len(records) |->
                    [n \in 1..Len(records[i]) |->
                        <<records[i][n][1],
                          JsonText(records[i][n][1], records[i][n][2])>>]]]

\* the records exported: none, or up to MaxRows rows of one script
ExportRows(script) ==
    { CreateRow([script |-> script, child |-> child, store |-> None,
                 present |-> present]) :
        child \in BOOLEAN, present \in {{}, SourceFields} }

ExportData(script) ==
    UNION { [1..n -> ExportRows(script)] : n \in 0..MaxRows }

\* names a column configuration may hold: two columns and a name that is no
\* column
ConfigNames == {"user_count", "qapp_name", "no_such_column"}

\* output.columns of the configuration file: nothing, or up to MaxConfig
\* names, each switched on or off
ColumnConfigs ==
    UNION { { c \in [1..n -> ConfigNames \X BOOLEAN] :
                \A i, j \in 1..n : i # j => c[i][1] # c[j][1] } :
            n \in 0..MaxConfig }

\* what the script reads from its configuration: only get_qapps_info.py has
\* a column configuration, a JSON switch and a header switch
ExportColumns(script) == IF script = "info" THEN ColumnConfigs ELSE {<<>>}

ExportFlags(script) == IF script = "info" THEN BOOLEAN ELSE {TRUE}

InitExport ==
    /\ variant = "unit"
    /\ pc = "unit"
    /\ InitIdle
    /\ \E script \in Scripts :
         \E data \in ExportData(script), columns \in ExportColumns(script),
            json \in ExportFlags(script), headers \in ExportFlags(script) :
              call = [fn |-> "export_to_csv",
                      arg |-> [script |-> script, data |-> data,
                               columns |-> columns, json |-> json,
                               headers |-> headers],
                      done |-> FALSE, ret |-> None]

\* export_to_csv(data); open() may fail, which the except clause reports
ExportToCsv ==
    /\ call.fn = "export_to_csv"
    /\ ~call.done
    /\ LET a == call.arg
       IN  IF ExportSkips(a.data)
           THEN UNCHANGED output
           ELSE \E opened \in BOOLEAN :
                  IF opened /\ ~CsvRaises(a.script, a.data, a.columns)
                  THEN output' = [output EXCEPT !.dir = TRUE,
                                    !.files = Append(@, CsvFile(a.script, a.data,
                                                        a.columns, a.headers))]
                  ELSE output' = [output EXCEPT !.dir = TRUE, !.error = TRUE]
    /\ call' = [call EXCEPT !.fn = "export_to_json"]
    /\ UNCHANGED <<variant, threads, pc, pipeVars, col, obs, remote, budget>>

\* export_to_json(data)
ExportToJson ==
    /\ call.fn = "export_to_json"
    /\ ~call.done
    /\ LET a == call.arg
       IN  IF ExportSkips(a.data) \/ (a.script = "info" /\ ~a.json)
           THEN UNCHANGED output
           ELSE \E opened \in BOOLEAN :
                  IF opened
                  THEN output' = [output EXCEPT !.dir = TRUE,
                                    !.files = Append(@, JsonFile(JsonRecords(a)))]
                  ELSE output' = [output EXCEPT !.dir = TRUE, !.error = TRUE]
    /\ call' = [call EXCEPT !.done = TRUE]
    /\ UNCHANGED <<variant, threads, pc, pipeVars, col, obs, remote, budget>>

NextExport == ExportToCsv \/ ExportToJson

SpecExport == InitExport /\ [][NextExport]_vars

\* -- get_user_details called from flattenings that run side by side --
\* Each thread flattens one row: it resolves the creator, then the updater,
\* against the one self.user_cache.  A thread may be overtaken between the
\* cache test, the describe_user call and the store: nothing in
\* get_user_details holds a lock.

Threads == 1..NumThreads

\* a thread at the head of get_user_details for the first of its ids
StartThread(ids) ==
    [ids |-> ids, k |-> 1, pc |-> "check", failed |-> FALSE,
     user_info |-> Placeholder("N/A"), infos |-> <<>>]

\* the id the thread is resolving
ThreadUser(t) == threads[t].ids[threads[t].k]

\* `return user_info`: on to the next id of the row, or the row is done
ThreadReturn(th, info) ==
    [th EXCEPT !.infos = Append(@, info),
               !.k = IF @ < Len(th.ids) THEN @ + 1 ELSE @,
               !.pc = IF th.k < Len(th.ids) THEN "check" ELSE "done"]

InitConcurrent ==
    /\ variant = "threads"
    /\ pc = "threads"
    /\ include_empty = TRUE
    /\ applications = <<>>
    /\ app_i = 0
    /\ identity_store_id \in {None, "d-1"}
    /\ user_cache = EmptyDict
    /\ index_id = None
    /\ qapps = <<>>
    /\ data_sources = <<>>
    /\ retrievers = <<>>
    /\ plugins = <<>>
    /\ chat_controls = EmptyDict
    /\ qapp_i = 0
    /\ all_data = <<>>
    /\ fetched = {}
    /\ col = IdleCol
    /\ obs = IdleObs
    /\ remote = NoRemote
    /\ budget = 0
    /\ call = NoCall
    /\ output = NoOutput
    /\ threads \in [Threads -> {StartThread(<<c, u>>) : c \in AllIds, u \in AllIds}]

\* lines 126-137: the cache test, and the test for a lookup that cannot be
\* made, which builds the placeholder
UserDetailsCheck ==
    \E t \in DOMAIN threads :
        /\ threads[t].pc = "check"
        /\ LET u == ThreadUser(t)
           IN  IF CacheHit(user_cache, u)
               THEN threads' = [threads EXCEPT
                                  ![t] = ThreadReturn(@, user_cache[u])]
               ELSE IF SkipLookup(identity_store_id, u)
               THEN threads' = [threads EXCEPT
                                  ![t].user_info = Placeholder(u),
                                  ![t].failed = FALSE,
                                  ![t].pc = "store"]
               ELSE threads' = [threads EXCEPT ![t].pc = "fetch"]
        /\ UNCHANGED <<variant, call, output, pc, pipeVars, col, obs, remote,
                       budget>>

\* lines 143-153 and 159-165: describe_user, and user_info from its response
\* or from the except clause
UserDetailsFetch ==
    \E t \in DOMAIN threads :
        /\ threads[t].pc = "fetch"
        /\ LET u == ThreadUser(t)
           IN  \E d \in DescribeResponses(u) :
                 /\ threads' = [threads EXCEPT
                      ![t].pc = "store",
                      ![t].failed = d.err,
                      ![t].user_info =
                          IF d.err THEN Placeholder(u)
                          ELSE [username |-> Get(d.user, "UserName", "N/A"),
                                email |-> ExtractEmail(d.user),
                                display_name |-> Get(d.user, "DisplayName", "N/A")]]
                 /\ remote' = [remote EXCEPT !.describe[u] = @ + 1]
        /\ UNCHANGED <<variant, call, output, pc, pipeVars, col, obs, budget>>

\* `self.user_cache[user_id] = user_info; return user_info`
UserDetailsStore ==
    \E t \in DOMAIN threads :
        /\ threads[t].pc = "store"
        /\ LET u == ThreadUser(t)
           IN  /\ user_cache' = IF threads[t].failed
                                THEN OnDescribeFailure(user_cache, u)
                                ELSE CachePut(user_cache, u, threads[t].user_info)
               /\ threads' = [threads EXCEPT
                                ![t] = ThreadReturn(@, threads[t].user_info)]
        /\ UNCHANGED <<variant, call, output, pc, include_empty, applications,
                       app_i, identity_store_id, index_id, qapps, data_sources,
                       retrievers, plugins, chat_controls, qapp_i, all_data,
                       fetched, col, obs, remote, budget>>

NextConcurrent == UserDetailsCheck \/ UserDetailsFetch \/ UserDetailsStore

SpecConcurrent == InitConcurrent /\ [][NextConcurrent]_vars

----------------------------------------------------------------------------
(* Properties *)

\* the rows of all_data made for the i-th listed parent
RowsOf(i) ==
    SelectSeq(all_data,
              LAMBDA r : Get(r.app, "applicationId", "N/A")
                         = Get(applications[i], "applicationId", "N/A"))

AppRowsOf(i) == SelectSeq(RowsOf(i), LAMBDA r : HasQApp(r.qapp))

NullRowsOf(i) == SelectSeq(RowsOf(i), LAMBDA r : ~HasQApp(r.qapp))

\* the loop has left the i-th parent
Completed(i) == i < app_i \/ pc = "done"

\* C1: a parent whose app-children collection has k >= 1 items gets exactly
\* k rows and no null-child row; with k = 0 it gets exactly one null-child
\* row when include_empty is set and no row otherwise; no parent ever has
\* both app rows and a null-child row.
C1_RowsPerParent ==
    \A i \in 1..Len(applications) :
        /\ ~(AppRowsOf(i) # <<>> /\ NullRowsOf(i) # <<>>)
        /\ Completed(i) =>
             LET k == remote.k[i]
             IN  IF k >= 1
                 THEN Len(AppRowsOf(i)) = k /\ NullRowsOf(i) = <<>>
                 ELSE /\ AppRowsOf(i) = <<>>
                      /\ Len(NullRowsOf(i)) = (IF include_empty THEN 1 ELSE 0)

C1_Witness ==
    /\ pc = "done"
    /\ Len(applications) >= 2
    /\ \E i, j \in 1..Len(applications) :
         /\ remote.k[i] = 0 /\ remote.k[j] = 2
         /\ Len(RowsOf(j)) = 2
         /\ Len(RowsOf(i)) = (IF include_empty THEN 1 ELSE 0)

\* the record the collector must hold for the n-th listed item once its get
\* call has answered: the detail on success, the list summary on failure
ExpectedEntry(n) ==
    IF obs.outcomes[n] THEN DetailOf(col.kind, obs.seen[n]) ELSE obs.seen[n]

\* C2: in a list+hydrate collector, whatever get calls fail, the result has
\* one entry per listed item in listing order, the detail where the get call
\* succeeded and the summary where it failed; a get failure drops nothing,
\* ends no page and stops no later list call.
C2_HydrateKeepsEveryItem ==
    (col.pc # "idle" /\ col.hydrate /\ ~obs.listfail) =>
        /\ Len(col.acc) = Len(obs.outcomes)
        /\ \A n \in 1..Len(obs.outcomes) : col.acc[n] = ExpectedEntry(n)
        /\ col.pc = "ret" =>
             /\ col.result = col.acc
             /\ Len(col.result) = Len(obs.seen)
             /\ ~Truthy(col.next_token)

C2_Witness ==
    /\ col.pc = "ret" /\ col.hydrate /\ ~obs.listfail
    /\ Len(obs.cursors) = 2
    /\ obs.outcomes = <<TRUE, TRUE, FALSE, TRUE, TRUE>>
    /\ Len(col.result) = 5
    /\ col.result[3] = obs.seen[3]
    /\ \A n \in {1, 2, 4, 5} : col.result[n] = DetailOf(col.kind, obs.seen[n])

\* C3: when a list call fails, on the first page or a later one, the
\* collector returns the empty sequence, whatever it had gathered, and
\* returns normally to its caller.
C3_ListFailureYieldsEmpty ==
    obs.listfail => (col.pc = "ret" /\ col.result = <<>>)

C3_Witness ==
    /\ obs.listfail
    /\ col.pc = "ret"
    /\ Len(obs.cursors) >= 2
    /\ col.acc # <<>>
    /\ col.result = <<>>

\* C4: over a whole run, DescribeUser is called at most once for every
\* principal id, however many rows and parents refer to it.
C4_OneLookupPerPrincipal ==
    \A u \in AllIds : remote.describe[u] <= 1

C4_Witness ==
    /\ pc = "done"
    /\ remote.describe["u1"] = 1
    /\ \E m, n \in 1..Len(all_data) :
         /\ all_data[m].creator_id = "u1" /\ all_data[n].creator_id = "u1"
         /\ all_data[m].app.applicationId # all_data[n].app.applicationId

\* the row a step appends, if it appends one
Appends == Len(all_data') = Len(all_data) + 1

NewRow == all_data'[Len(all_data')]

\* C5: once a record is cached for a principal id, every later resolve of
\* that id, whatever directory id it is given, returns a record equal to the
\* cached one, and the cache entry is never overwritten or removed.
C5_ResolveIdempotent ==
    [][ /\ \A u \in DOMAIN user_cache :
             u \in DOMAIN user_cache' /\ user_cache'[u] = user_cache[u]
        /\ (Appends /\ variant = "enhanced") =>
             /\ NewRow.creator_id \in DOMAIN user_cache =>
                  NewRow.creator_info = user_cache[NewRow.creator_id]
             /\ NewRow.updater_id \in DOMAIN user_cache =>
                  NewRow.updater_info = user_cache[NewRow.updater_id]
      ]_vars

\* the same principal resolved first without and later with a directory id
C5_Witness ==
    \E m, n \in 1..Len(all_data) :
        /\ variant = "enhanced"
        /\ m < n
        /\ all_data[m].identity_store_id = None
        /\ all_data[n].identity_store_id # None
        /\ all_data[m].creator_id = "u1" /\ all_data[n].creator_id = "u1"
        /\ all_data[m].creator_info = all_data[n].creator_info

\* C6: no row of a parent is appended before the parent's app-children,
\* index, data-source, retriever, plugin and chat-control fetches have all
\* returned, with a result or with the fallback.
C6_RowsAfterAllFetches ==
    [][ Appends => (fetched = FetchKinds(variant) /\ col.pc = "idle") ]_vars

C6_Witness ==
    /\ variant = "enhanced"
    /\ pc = "rows" /\ qapp_i = 2
    /\ fetched = FetchKinds(variant)
    /\ chat_controls = EmptyDict
    /\ index_id = None
    /\ Len(RowsOf(app_i)) = 1

\* the rows the i-th parent gets when none of its own calls fails: one per
\* library item the service lists for it, or the null-child row
RowsWithoutFailure(i) ==
    IF remote.listed[i] >= 1 THEN remote.listed[i]
    ELSE IF include_empty THEN 1 ELSE 0

\* C7: a recoverable failure while one parent is processed does not change
\* the number of rows of any other parent: every listed parent is processed,
\* and a parent none of whose own calls failed gets the rows it gets in a run
\* without failures.
C7_FailureIsolation ==
    pc = "done" =>
        /\ Len(remote.listed) = Len(applications)
        /\ \A i \in 1..Len(applications) :
             i \notin remote.faulted => Len(RowsOf(i)) = RowsWithoutFailure(i)

C7_Witness ==
    /\ pc = "done"
    /\ variant = "enhanced"
    /\ \E a, b \in 1..Len(applications) :
         /\ a < b
         /\ a \in remote.faulted /\ b \notin remote.faulted
         /\ Len(RowsOf(a)) < 2
         /\ Len(RowsOf(b)) = 2

\* C8: all rows of one export have the same sequence of keys, with an app
\* child or without one and whatever source fields are absent: every row a
\* step appends has the keys of the first row, in the same order.
C8_SameKeys ==
    [][ Appends =>
          \A new \in {Columns(NewRow)}, first \in {Columns(all_data'[1])} :
              Keys(new) = Keys(first) ]_vars

C8_Witness ==
    /\ variant = "info"
    /\ \E m, n \in 1..Len(all_data) :
         /\ HasQApp(all_data[m].qapp) /\ ~HasQApp(all_data[n].qapp)
         /\ "title" \in DOMAIN all_data[m].qapp
    /\ \E m \in 1..Len(all_data) :
         HasQApp(all_data[m].qapp) /\ "title" \notin DOMAIN all_data[m].qapp

\* C9: ListInstances, the discovery of the directory id, is called at most
\* once in a run, whether the call succeeded, failed or listed no instance.
C9_DiscoveryAtMostOnce == remote.discover <= 1

\* C10: on a cache miss with no directory id or with the 'N/A' sentinel as
\* principal id, resolve makes no remote call, returns the placeholder
\* {username = id, email = 'N/A', display name = 'N/A'} and caches it.
C10_PlaceholderWithoutLookup ==
    [][ (Appends /\ variant = "enhanced") =>
          \A w \in {<<NewRow.creator_id, NewRow.creator_info>>,
                    <<NewRow.updater_id, NewRow.updater_info>>} :
              (w[1] \notin DOMAIN user_cache
               /\ (identity_store_id = None \/ w[1] = "N/A")) =>
                  /\ remote'.describe[w[1]] = remote.describe[w[1]]
                  /\ w[2] = [username |-> w[1], email |-> "N/A",
                             display_name |-> "N/A"]
                  /\ w[1] \in DOMAIN user_cache'
                  /\ user_cache'[w[1]] = w[2]
      ]_vars

\* a principal first resolved without a directory id, and the sentinel first
\* resolved when the directory id is known
C10_Witness ==
    /\ variant = "enhanced"
    /\ \E m, n \in 1..Len(all_data) :
         /\ m < n
         /\ all_data[m].identity_store_id = None
         /\ all_data[m].creator_id = "u1"
         /\ all_data[m].creator_info.email = "N/A"
         /\ \A j \in 1..(n - 1) :
              "N/A" \notin {all_data[j].creator_id, all_data[j].updater_id}
         /\ all_data[n].identity_store_id # None
         /\ all_data[n].updater_id = "N/A"
         /\ all_data[n].updater_info.username = "N/A"

\* C11: when describe_user fails for a principal id, the placeholder
\* {username = id, email = 'N/A', display name = 'N/A'} is cached and shown
\* in every row that refers to the id, and the lookup is never made again.
C11_FailedLookupNotRetried ==
    \A u \in remote.failed :
        /\ remote.describe[u] = 1
        /\ u \in DOMAIN user_cache
        /\ user_cache[u] = [username |-> u, email |-> "N/A",
                            display_name |-> "N/A"]
        /\ \A n \in 1..Len(all_data) :
             /\ all_data[n].creator_id = u =>
                  all_data[n].creator_info = user_cache[u]
             /\ all_data[n].updater_id = u =>
                  all_data[n].updater_info = user_cache[u]

\* the lookup of u1 failed with the directory id known, and a later row of
\* another parent refers to u1 again
C11_Witness ==
    /\ pc = "done"
    /\ "u1" \in remote.failed
    /\ \E m, n \in 1..Len(all_data) :
         /\ m < n
         /\ all_data[m].creator_id = "u1" /\ all_data[n].creator_id = "u1"
         /\ all_data[m].identity_store_id # None
         /\ all_data[m].app.applicationId # all_data[n].app.applicationId

\* the entries of an Emails list that carry a true Primary flag
PrimaryEntries(emails) ==
    {i \in 1..Len(emails) : "Primary" \in DOMAIN emails[i] /\ emails[i].Primary}

\* the entries that carry a value
ValuedEntries(emails) == {i \in 1..Len(emails) : "Value" \in DOMAIN emails[i]}

Least(S) == CHOOSE i \in S : \A j \in S : i <= j

EmailsOf(r) == IF "Emails" \in DOMAIN r THEN r.Emails ELSE <<>>

\* C12 as written: the email is the value of the primary-flagged entry if
\* there is one with a value, otherwise the first value any entry has,
\* otherwise 'N/A', for every list of entries with or without flag and value.
C12_PrimaryElseFirstAvailable ==
    (call.fn = "_extract_email" /\ call.done) =>
        LET emails == EmailsOf(call.arg)
            prim == PrimaryEntries(emails) \cap ValuedEntries(emails)
        IN  call.ret = IF prim # {} THEN emails[Least(prim)].Value
                       ELSE IF ValuedEntries(emails) # {}
                            THEN emails[Least(ValuedEntries(emails))].Value
                            ELSE "N/A"

\* C12, amended: the entry is chosen by position and flag alone, the first
\* primary-flagged entry if there is one and the first entry otherwise; the
\* email is that entry's value, and 'N/A' when the chosen entry has no value
\* (whatever values other entries have) or when there is no entry.
C12_ChosenEntryValue ==
    (call.fn = "_extract_email" /\ call.done) =>
        LET emails == EmailsOf(call.arg)
            prim == PrimaryEntries(emails)
            chosen == IF prim # {} THEN Least(prim) ELSE 1
        IN  call.ret = IF emails = <<>> THEN "N/A"
                       ELSE IF chosen \in ValuedEntries(emails)
                            THEN emails[chosen].Value
                            ELSE "N/A"

\* the primary entry is the third, after an unflagged entry with a value
C12_Witness ==
    /\ call.fn = "_extract_email" /\ call.done
    /\ Len(EmailsOf(call.arg)) = 3
    /\ PrimaryEntries(EmailsOf(call.arg)) = {3}
    /\ ValuedEntries(EmailsOf(call.arg)) = {1, 3}
    /\ call.ret = "e3"

\* C13: the first list call of a collector carries no cursor, every later
\* one carries the cursor the response before it returned, and no list call
\* follows a response without cursor (or a failed call).
C13_CursorChain ==
    /\ Len(obs.returned) = Len(obs.cursors)
    /\ obs.cursors # <<>> => obs.cursors[1] = None
    /\ \A n \in 2..Len(obs.cursors) :
         /\ obs.returned[n - 1] # None
         /\ obs.cursors[n] = obs.returned[n - 1]

C13_Witness ==
    /\ col.pc = "ret" /\ ~obs.listfail
    /\ obs.cursors = <<None, "t2">>
    /\ obs.returned = <<"t2", None>>

\* every item of the pages fetched has been through the loop, and the result
\* holds them all, or nothing after a failed list call
Accounted ==
    /\ col.hydrate => obs.gets = Len(obs.seen)
    /\ IF obs.listfail THEN col.result = <<>>
       ELSE Len(col.result) = Len(obs.seen)

\* C14: a collector call returns, once the service has answered a list call
\* without cursor or with a failure after finitely many pages, and every
\* item of the pages fetched is then accounted for.
C14_CollectorTerminates ==
    (col.pc \in {"list", "get"}) ~> (col.pc = "ret" /\ Accounted)

C14_Witness ==
    /\ col.pc = "ret" /\ Accounted
    /\ col.kind = "plugins" /\ ~obs.listfail
    /\ Len(obs.cursors) = 2
    /\ Len(obs.seen) = 4

\* C15: for a parent whose list_indices call fails or lists no index, no
\* list_data_sources or get_data_source call is made, its rows carry an
\* empty data-source collection and are emitted all the same; for a parent
\* with indices, data sources are fetched for the first index only.
C15_DataSourcesOfFirstIndexOnly ==
    \A i \in 1..Len(remote.indices) :
        IF remote.indices[i] = <<>>
        THEN /\ \A c \in remote.ds : c[1] # i
             /\ \A n \in 1..Len(RowsOf(i)) : RowsOf(i)[n].data_sources = <<>>
             /\ (Completed(i) /\ (remote.k[i] >= 1 \/ include_empty)) =>
                   RowsOf(i) # <<>>
        ELSE \A c \in remote.ds : c[1] = i => c[2] = remote.indices[i][1]

\* a parent without index that got its rows, and a parent with two indices
\* whose data sources were fetched
C15_Witness ==
    /\ pc = "done" /\ variant = "enhanced"
    /\ \E i, j \in 1..Len(remote.indices) :
         /\ remote.indices[i] = <<>>
         /\ RowsOf(i) # <<>>
         /\ Len(remote.indices[j]) = 2
         /\ \E c \in remote.ds : c[1] = j
         /\ RowsOf(j) # <<>>
         /\ RowsOf(j)[1].data_sources # <<>>

\* the value a row has under a key
Field(cols, key) == cols[CHOOSE n \in 1..Len(cols) : cols[n][1] = key][2]

\* a step that ends the work on the current parent
LeavesParent == pc = "rows" /\ (pc' = "done" \/ app_i' # app_i)

\* C16: when get_chat_controls_configuration fails for a parent, the
\* parent's rows are emitted all the same, with blocked_phrases_count = 0,
\* topic_count = 0, empty joined phrase and topic strings and 'N/A' in the
\* policy mode fields.
C16_ChatFailureGivesPlaceholders ==
    [][ /\ (Appends /\ variant = "enhanced" /\ app_i \in remote.chat_failed) =>
             \A c \in {Columns(NewRow)} :
                 /\ Field(c, "blocked_phrases_count") = 0
                 /\ Field(c, "blocked_phrases") = ""
                 /\ Field(c, "blocked_phrases_system_message") = "N/A"
                 /\ Field(c, "creator_mode_control") = "N/A"
                 /\ Field(c, "hallucination_reduction_control") = "N/A"
                 /\ Field(c, "orchestration_control") = "N/A"
                 /\ Field(c, "response_scope") = "N/A"
                 /\ Field(c, "topic_count") = 0
                 /\ Field(c, "topic_names") = ""
                 /\ Field(c, "topic_descriptions") = ""
        /\ (LeavesParent /\ app_i \in remote.chat_failed
            /\ (remote.k[app_i] >= 1 \/ include_empty)) =>
             Len(all_data') > Len(all_data)
      ]_vars

\* the fetch failed for the second parent after it had succeeded for the
\* first, and the second parent got its two rows
C16_Witness ==
    /\ pc = "done" /\ variant = "enhanced"
    /\ remote.chat_failed = {2}
    /\ Len(RowsOf(1)) >= 1
    /\ RowsOf(1)[1].chat_controls # EmptyDict
    /\ Len(RowsOf(2)) = 2
    /\ RowsOf(2)[2].chat_controls = EmptyDict

\* the keys of the parent, collection-summary and policy fields of a row:
\* all but the app-child and identity fields and the time of the export
SharedKeys(r) ==
    IF variant = "enhanced"
    THEN UNION { {c[n][1] : n \in 1..Len(c)} :
                   c \in {GlobalAppColumns(r), GlobalChatColumns(r),
                          GlobalCollectionColumns(r)} }
         \ {"export_timestamp"}
    ELSE UNION { {c[n][1] : n \in 1..Len(c)} : c \in {DataRowBase(r.app)} }
         \cup {"aws_region", "aws_account"}

RefersTo(n, u) ==
    {j \in 1..n : u \in {all_data[j].creator_id, all_data[j].updater_id}}

\* C18: when two app children, of one parent or of two, have the same
\* createdBy id and the directory id is known whenever that id is resolved,
\* describe_user is called exactly once for the id and both rows show the
\* same creator username, email and display name.
C18_SharedCreatorResolvedOnce ==
    variant = "enhanced" =>
        \A m, n \in 1..Len(all_data) :
            LET u == all_data[m].creator_id
            IN  (/\ m < n
                 /\ u # "N/A"
                 /\ all_data[n].creator_id = u
                 /\ \A j \in RefersTo(n, u) :
                      all_data[j].identity_store_id # None) =>
                    /\ remote.describe[u] = 1
                    /\ all_data[m].creator_info.username
                         = all_data[n].creator_info.username
                    /\ all_data[m].creator_info.email
                         = all_data[n].creator_info.email
                    /\ all_data[m].creator_info.display_name
                         = all_data[n].creator_info.display_name

\* two app children of two parents created by u1, resolved from the directory
C18_Witness ==
    /\ variant = "enhanced"
    /\ \E m, n \in 1..Len(all_data) :
         /\ m < n
         /\ all_data[m].creator_id = "u1" /\ all_data[n].creator_id = "u1"
         /\ all_data[m].app.applicationId # all_data[n].app.applicationId
         /\ all_data[m].identity_store_id # None
         /\ all_data[n].creator_info.email = "u1@corp"
         /\ remote.describe["u1"] = 1

RECURSIVE Listing(_)
\* the texts of a sequence, first to last, with ", " between them
Listing(texts) ==
    IF Len(texts) = 0 THEN ""
    ELSE IF Len(texts) = 1 THEN texts[1]
    ELSE Listing(SubSeq(texts, 1, Len(texts) - 1)) \o ", " \o texts[Len(texts)]

\* what the items of a collection have under a key, 'N/A' where they have
\* nothing, in the order of the collection
Under(items, key) ==
    [n \in 1..Len(items) |->
        IF key \in DOMAIN items[n] THEN items[n][key] ELSE "N/A"]

\* C19: every collection summary of a row follows the collection as it was
\* fetched: the count is the number of items the collector returned, the
\* joined ids are the ids in the order the list calls returned them, the
\* joined types, names and statuses follow the same order, and a collection
\* that is empty or was not fetched gives 0 and empty strings.
C19_SummariesInFetchOrder ==
    [][ (Appends /\ variant = "enhanced") =>
          \A c \in {Columns(NewRow)} :
              /\ Field(c, "data_source_count") = Len(data_sources)
              /\ Field(c, "retriever_count") = Len(retrievers)
              /\ Field(c, "plugin_count") = Len(plugins)
              /\ Field(c, "data_source_ids")
                   = Listing(remote.listed_ids["data_sources"])
              /\ Field(c, "retriever_ids")
                   = Listing(remote.listed_ids["retrievers"])
              /\ Field(c, "plugin_ids") = Listing(remote.listed_ids["plugins"])
              /\ Field(c, "data_source_types") = Listing(Under(data_sources, "type"))
              /\ Field(c, "data_source_names")
                   = Listing(Under(data_sources, "displayName"))
              /\ Field(c, "data_source_statuses")
                   = Listing(Under(data_sources, "status"))
              /\ Field(c, "retriever_types") = Listing(Under(retrievers, "type"))
              /\ Field(c, "retriever_statuses")
                   = Listing(Under(retrievers, "status"))
              /\ Field(c, "plugin_types") = Listing(Under(plugins, "type"))
              /\ Field(c, "plugin_statuses") = Listing(Under(plugins, "status"))
              /\ plugins = <<>> =>
                   /\ Field(c, "plugin_count") = 0
                   /\ Field(c, "plugin_ids") = ""
                   /\ Field(c, "plugin_types") = ""
              /\ data_sources = <<>> =>
                   /\ Field(c, "data_source_count") = 0
                   /\ Field(c, "data_source_ids") = ""
      ]_vars

\* a row with two plugins from two pages, the second hydrated and the first
\* not, and with no data source because there was no index
C19_Witness ==
    /\ variant = "enhanced" /\ all_data # <<>>
    /\ LET r == all_data[Len(all_data)]
       IN /\ Len(r.plugins) = 2
          /\ "authConfiguration" \notin DOMAIN r.plugins[1]
          /\ "authConfiguration" \in DOMAIN r.plugins[2]
          /\ Field(Columns(r), "plugin_ids") = "p-app2, a-app2"
          /\ Field(Columns(r), "plugin_types") = "JIRA, CUSTOM"
          /\ r.index_id = None
          /\ Field(Columns(r), "data_source_count") = 0

\* C20: _create_global_row never raises, whatever nested fields of the
\* parent, the app child and the chat controls are absent, null or of
\* another shape: it always returns a row.
C20_FlattenNeverRaises ==
    (call.fn = "_create_global_row" /\ call.done) => ~call.ret.raised

\* the scalar columns of the rows of a script: the column, the field it
\* projects and the type of that field
AppScalarColumns ==
    { [col |-> "app_name", src |-> <<"app", "displayName">>, type |-> "string"],
      [col |-> "app_id", src |-> <<"app", "applicationId">>, type |-> "string"],
      [col |-> "app_arn", src |-> <<"app", "applicationArn">>, type |-> "string"],
      [col |-> "app_description", src |-> <<"app", "description">>, type |-> "string"],
      [col |-> "app_status", src |-> <<"app", "status">>, type |-> "string"],
      [col |-> "app_created_at", src |-> <<"app", "createdAt">>, type |-> "string"],
      [col |-> "app_updated_at", src |-> <<"app", "updatedAt">>, type |-> "string"],
      [col |-> "identity_type", src |-> <<"app", "identityType">>, type |-> "string"],
      [col |-> "identity_center_arn",
       src |-> <<"app", "identityCenterApplicationArn">>, type |-> "string"],
      [col |-> "iam_identity_provider_arn",
       src |-> <<"app", "iamIdentityProviderArn">>, type |-> "string"],
      [col |-> "role_arn", src |-> <<"app", "roleArn">>, type |-> "string"],
      [col |-> "encryption_kms_key",
       src |-> <<"app", "encryptionConfiguration", "kmsKeyId">>, type |-> "string"],
      [col |-> "attachments_mode",
       src |-> <<"app", "attachmentsConfiguration", "attachmentsControlMode">>,
       type |-> "string"],
      [col |-> "auto_subscribe",
       src |-> <<"app", "autoSubscriptionConfiguration", "autoSubscribe">>,
       type |-> "string"],
      [col |-> "auto_subscribe_default",
       src |-> <<"app", "autoSubscriptionConfiguration", "defaultSubscriptionType">>,
       type |-> "string"],
      [col |-> "personalization_mode",
       src |-> <<"app", "personalizationConfiguration", "personalizationControlMode">>,
       type |-> "string"],
      [col |-> "qapps_mode",
       src |-> <<"app", "qAppsConfiguration", "qAppsControlMode">>, type |-> "string"],
      [col |-> "quicksight_namespace",
       src |-> <<"app", "quickSightConfiguration", "clientNamespace">>,
       type |-> "string"],
      [col |-> "error_code", src |-> <<"app", "error", "errorCode">>, type |-> "string"],
      [col |-> "error_message", src |-> <<"app", "error", "errorMessage">>,
       type |-> "string"],
      [col |-> "blocked_phrases_system_message",
       src |-> <<"chat", "blockedPhrases", "systemMessageOverride">>, type |-> "string"],
      [col |-> "creator_mode_control",
       src |-> <<"chat", "creatorModeConfiguration", "creatorModeControl">>,
       type |-> "string"],
      [col |-> "hallucination_reduction_control",
       src |-> <<"chat", "hallucinationReductionConfiguration",
                 "hallucinationReductionControl">>, type |-> "string"],
      [col |-> "orchestration_control",
       src |-> <<"chat", "orchestrationConfiguration", "control">>, type |-> "string"],
      [col |-> "response_scope", src |-> <<"chat", "responseScope">>, type |-> "string"] }

QAppScalarColumns ==
    { [col |-> "qapp_id", src |-> <<"qapp", "appId">>, type |-> "string"],
      [col |-> "qapp_library_item_id", src |-> <<"qapp", "libraryItemId">>,
       type |-> "string"],
      [col |-> "qapp_version", src |-> <<"qapp", "appVersion">>, type |-> "string"],
      [col |-> "qapp_status", src |-> <<"qapp", "status">>, type |-> "string"],
      [col |-> "qapp_user_count", src |-> <<"qapp", "userCount">>, type |-> "count"],
      [col |-> "qapp_created_at", src |-> <<"qapp", "createdAt">>, type |-> "string"],
      [col |-> "qapp_updated_at", src |-> <<"qapp", "updatedAt">>, type |-> "string"],
      [col |-> "qapp_rating_count", src |-> <<"qapp", "ratingCount">>, type |-> "count"],
      [col |-> "qapp_is_verified", src |-> <<"qapp", "isVerified">>, type |-> "boolean"],
      [col |-> "qapp_is_rated_by_user", src |-> <<"qapp", "isRatedByUser">>,
       type |-> "boolean"],
      [col |-> "qapp_description", src |-> <<"qapp", "description">>, type |-> "string"] }

ScalarColumns(script) ==
    CASE script = "enhanced" ->
           AppScalarColumns \cup QAppScalarColumns \cup
           { [col |-> "qapp_name", src |-> <<"qapp", "libraryItemId">>, type |-> "string"],
             [col |-> "qapp_creator_user_id", src |-> <<"qapp", "createdBy">>,
              type |-> "string"],
             [col |-> "qapp_updater_user_id", src |-> <<"qapp", "updatedBy">>,
              type |-> "string"] }
      [] script = "global" ->
           AppScalarColumns \cup QAppScalarColumns \cup
           { [col |-> "qapp_name", src |-> <<"qapp", "title">>, type |-> "string"],
             [col |-> "qapp_owner_created_by", src |-> <<"qapp", "createdBy">>,
              type |-> "string"],
             [col |-> "qapp_updated_by", src |-> <<"qapp", "updatedBy">>,
              type |-> "string"] }
      [] script = "info" ->
           { [col |-> "qbusiness_app_name", src |-> <<"app", "displayName">>,
              type |-> "string"],
             [col |-> "qbusiness_app_id", src |-> <<"app", "applicationId">>,
              type |-> "string"],
             [col |-> "qbusiness_status", src |-> <<"app", "status">>, type |-> "string"],
             [col |-> "qbusiness_identity_type", src |-> <<"app", "identityType">>,
              type |-> "string"],
             [col |-> "qbusiness_created_at", src |-> <<"app", "createdAt">>,
              type |-> "string"],
             [col |-> "qbusiness_updated_at", src |-> <<"app", "updatedAt">>,
              type |-> "string"],
             [col |-> "qbusiness_encryption",
              src |-> <<"app", "encryptionConfiguration", "kmsKeyId">>,
              type |-> "string"],
             [col |-> "qapp_name", src |-> <<"qapp", "title">>, type |-> "string"],
             [col |-> "qapp_library_item_id", src |-> <<"qapp", "libraryItemId">>,
              type |-> "string"],
             [col |-> "qapp_id", src |-> <<"qapp", "appId">>, type |-> "string"],
             [col |-> "qapp_version", src |-> <<"qapp", "appVersion">>, type |-> "string"],
             [col |-> "qapp_status", src |-> <<"qapp", "status">>, type |-> "string"],
             [col |-> "user_count", src |-> <<"qapp", "userCount">>, type |-> "count"],
             [col |-> "owner_created_by", src |-> <<"qapp", "createdBy">>,
              type |-> "string"],
             [col |-> "created_at", src |-> <<"qapp", "createdAt">>, type |-> "string"],
             [col |-> "updated_by", src |-> <<"qapp", "updatedBy">>, type |-> "string"],
             [col |-> "updated_at", src |-> <<"qapp", "updatedAt">>, type |-> "string"],
             [col |-> "rating_count", src |-> <<"qapp", "ratingCount">>, type |-> "count"],
             [col |-> "is_verified", src |-> <<"qapp", "isVerified">>, type |-> "boolean"],
             [col |-> "is_rated_by_user", src |-> <<"qapp", "isRatedByUser">>,
              type |-> "boolean"],
             [col |-> "description", src |-> <<"qapp", "description">>,
              type |-> "string"] }

\* the source field of a column is absent from the records flattened
SourceAbsent(a, c) ==
    c.src \notin a.present \/ (c.src[1] = "qapp" /\ ~a.child)

\* the columns that do not go straight to the placeholder of their type
EncryptionColumns == {"encryption_kms_key", "qbusiness_encryption"}

NameColumns == {"qapp_name", "qbusiness_app_name"}

\* no column of the row whose source is absent differs from `expected`
AbsentColumnsAre(a, row, cols, expected(_)) ==
    \A c \in cols :
        SourceAbsent(a, c) => CASE c.type = "string"  -> Field(row, c.col) = expected(c)
                                [] c.type = "count"   -> Field(row, c.col) = 0
                                [] c.type = "boolean" -> Field(row, c.col) = FALSE

\* C21 as stated: in a flattened row every scalar field whose source field
\* is absent is 'N/A' (strings), 0 (counts) or false (booleans), and the
\* name of a null-child row is 'No Q Apps'.
C21_PlaceholderPerType ==
    (call.fn = "create_row" /\ call.done) =>
        AbsentColumnsAre(call.arg, call.ret, ScalarColumns(call.arg.script),
            LAMBDA c : IF c.col = "qapp_name" /\ ~call.arg.child
                       THEN "No Q Apps" ELSE "N/A")

\* what a name column holds when its source is absent: the id of the record
\* before any placeholder
NameFallback(a, c) ==
    LET has(path) == path \in a.present
        id == SampleValue("libraryItemId")
    IN  CASE c.col = "qbusiness_app_name" ->
               IF has(<<"app", "applicationId">>) THEN SampleValue("applicationId")
               ELSE "N/A"
          [] ~a.child \/ ~\E p \in a.present : p[1] = "qapp" -> "No Q Apps"
          [] a.script = "enhanced" -> "Q App Unknown"
          [] a.script = "global" ->
               IF has(<<"qapp", "libraryItemId">>) THEN id ELSE "No Q Apps"
          [] a.script = "info" ->
               IF has(<<"qapp", "libraryItemId">>) THEN id ELSE "N/A"

\* C21 (amended): every scalar field whose source field is absent takes the
\* placeholder of its type, except that the encryption key column takes
\* 'AWS Managed' and a name column falls back to the id of its record before
\* a placeholder; a null-child row (and the row of a child record without any
\* field, which `if qapp` takes for none) has user count 0, the name
\* 'No Q Apps' and every other app field, the resolved creator and updater
\* included, at its placeholder.
C21_PlaceholderOrFallback ==
    (call.fn = "create_row" /\ call.done) =>
        /\ AbsentColumnsAre(call.arg, call.ret, ScalarColumns(call.arg.script),
              LAMBDA c : CASE c.col \in EncryptionColumns -> "AWS Managed"
                           [] c.col \in NameColumns -> NameFallback(call.arg, c)
                           [] OTHER -> "N/A")
        /\ (call.arg.script = "enhanced" /\ ~call.arg.child) =>
              \A k \in {"qapp_creator_username", "qapp_creator_email",
                        "qapp_creator_display_name", "qapp_updater_username",
                        "qapp_updater_email"} : Field(call.ret, k) = "N/A"

\* a row of a present child without user count, of an application without
\* encryption configuration, has been made
C21_Witness ==
    /\ call.fn = "create_row" /\ call.done
    /\ call.arg.child
    /\ <<"qapp", "userCount">> \notin call.arg.present
    /\ <<"app", "encryptionConfiguration", "kmsKeyId">> \notin call.arg.present
    /\ <<"qapp", "appId">> \in call.arg.present

\* export_to_csv has written its file
CsvWritten == output.files # <<>> /\ output.files[1].kind = "csv"

\* the keys of a record, in the order the dict keeps them
KeySeq(row) == [n \in 1..Len(row) |-> row[n][1]]

Range(seq) == {seq[n] : n \in 1..Len(seq)}

\* C22 as stated: without column configuration the CSV columns are the keys
\* of the first record, in the same order, in every script.
C22_ColumnsAreFirstRecordKeys ==
    (CsvWritten /\ call.arg.columns = <<>>) =>
        output.files[1].fieldnames = KeySeq(call.arg.data[1])

\* C22 (amended): without column configuration the CSV has the same columns
\* as the first record has keys, and as many; in the global scripts they come
\* in the order of the record's keys, in get_qapps_info.py in the order of the
\* exporter's own column list.
C22_ColumnsOfFirstRecord ==
    (CsvWritten /\ call.arg.columns = <<>>) =>
        LET names == output.files[1].fieldnames
            keys  == KeySeq(call.arg.data[1])
        IN  /\ Len(names) = Len(keys)
            /\ Range(names) = Range(keys)
            /\ call.arg.script # "info" => names = keys
            /\ call.arg.script = "info" => names = AllFieldnames

\* get_qapps_info.py has exported two records without column configuration
C22_Witness ==
    /\ CsvWritten
    /\ call.arg.columns = <<>>
    /\ call.arg.script = "info"
    /\ Len(call.arg.data) = 2
    /\ Len(output.files[1].lines) = 2

\* the names a column configuration switches on, in the order it lists them
ListedOn(column_config) ==
    KeySeq(SelectSeq(column_config, LAMBDA kv : kv[2]))

\* the position of a name in a sequence without repetitions
IndexIn(seq, x) == CHOOSE n \in 1..Len(seq) : seq[n] = x

\* C23 as stated: with a column configuration the CSV columns are exactly the
\* columns it lists, in the order listed, but for the names that are no
\* column.
C23_ColumnsAreTheListed ==
    (CsvWritten /\ call.arg.columns # <<>>) =>
        output.files[1].fieldnames =
            SelectSeq(ListedOn(call.arg.columns),
                      LAMBDA c : c \in Range(AllFieldnames))

\* export_to_csv has returned and export_to_json has not begun
AfterCsv == call.fn = "export_to_json" /\ ~call.done

\* C23 (amended): with a column configuration the CSV columns are the columns
\* of the exporter's own list that the configuration does not switch off (a
\* column it does not name is written), in the order of that list; a name in
\* the configuration that is no known column is ignored without error and
\* does not appear in the output.
C23_ColumnsNotSwitchedOff ==
    (CsvWritten /\ call.arg.columns # <<>>) =>
        LET names == output.files[1].fieldnames
            off   == {kv[1] : kv \in {p \in Range(call.arg.columns) : ~p[2]}}
        IN  /\ Range(names) = Range(AllFieldnames) \ off
            /\ \A i, j \in 1..Len(names) :
                 i < j => IndexIn(AllFieldnames, names[i])
                            < IndexIn(AllFieldnames, names[j])
            /\ \A n \in 1..Len(output.files[1].lines) :
                 Len(output.files[1].lines[n]) = Len(names)
            /\ AfterCsv => ~output.error

\* a CSV was written under a configuration that names an unknown column and
\* switches user_count off
C23_Witness ==
    /\ CsvWritten
    /\ AfterCsv
    /\ call.arg.columns = << <<"no_such_column", TRUE>>, <<"user_count", FALSE>> >>
    /\ Len(output.files[1].lines) = 2

\* C24: exporting an empty record sequence is a no-op for CSV and for JSON:
\* neither call creates the output directory, writes a file or reports an
\* error.
C24_EmptyExportIsNoOp ==
    (call.fn \in {"export_to_csv", "export_to_json"} /\ call.arg.data = <<>>) =>
        output = NoOutput

\* both exports have returned from an empty record sequence
C24_Witness ==
    /\ call.fn = "export_to_json"
    /\ call.done
    /\ call.arg.data = <<>>
    /\ call.arg.script = "info"
    /\ call.arg.columns # <<>>

\* export_to_json has written its file: the last file of the directory
JsonWritten ==
    output.files # <<>> /\ output.files[Len(output.files)].kind = "json"

\* C25: whatever the CSV column configuration, the JSON export has one
\* object per record, and each object has exactly the keys of its record.
C25_JsonHasEveryField ==
    JsonWritten =>
        LET objects == output.files[Len(output.files)].objects
            data    == call.arg.data
        IN  /\ Len(objects) = Len(data)
            /\ \A i \in 1..Len(objects) : KeySeq(objects[i]) = KeySeq(data[i])

\* a JSON file was written after a CSV from which a column was switched off
C25_Witness ==
    /\ JsonWritten
    /\ CsvWritten
    /\ Len(call.arg.data) = 2
    /\ \E n \in 1..Len(call.arg.columns) : ~call.arg.columns[n][2]
    /\ Len(output.files[1].fieldnames) < Len(call.arg.data[1])

C27_QAppsFromSummariesOnly ==
    col.kind = "qapps" =>
        /\ obs.gets = 0
        /\ col.pc # "get"
        /\ ~obs.listfail => col.acc = obs.seen
        /\ col.pc = "ret" =>
             col.result = IF obs.listfail THEN <<>> ELSE obs.seen

\* get_qapps has returned the items of two pages
C27_Witness ==
    /\ col.kind = "qapps"
    /\ col.pc = "ret"
    /\ ~obs.listfail
    /\ Len(obs.cursors) = 2
    /\ Len(col.result) > MaxItems

\* the info record row n shows for principal u, as creator or as updater
ShownFor(n, u) ==
    (IF all_data[n].creator_id = u THEN {all_data[n].creator_info} ELSE {})
    \cup (IF all_data[n].updater_id = u THEN {all_data[n].updater_info} ELSE {})

\* C28: when the first row that refers to a principal id was made while no
\* directory id was known, describe_user is never called for that id in the
\* run and every row that refers to it, also the rows of later parents made
\* after the directory id was discovered, shows the placeholder
\* {username = id, email = 'N/A', display name = 'N/A'}.
C28_EarlyPlaceholderPersists ==
    variant = "enhanced" =>
        \A u \in AllIds :
            \A m \in RefersTo(Len(all_data), u) :
                (/\ RefersTo(m - 1, u) = {}
                 /\ all_data[m].identity_store_id = None) =>
                    /\ remote.describe[u] = 0
                    /\ \A n \in RefersTo(Len(all_data), u) :
                         ShownFor(n, u) = {Placeholder(u)}

\* u1 is first met under a parent without directory id, and met again as
\* creator and as updater under the next parent, whose discovery gave "d-1"
C28_Witness ==
    /\ variant = "enhanced"
    /\ pc = "done"
    /\ identity_store_id = "d-1"
    /\ \E m, n \in 1..Len(all_data) :
         /\ m < n
         /\ RefersTo(m - 1, "u1") = {}
         /\ all_data[m].creator_id = "u1"
         /\ all_data[m].identity_store_id = None
         /\ all_data[n].identity_store_id = "d-1"
         /\ all_data[n].app.applicationId # all_data[m].app.applicationId
         /\ "u1" \in {all_data[n].creator_id, all_data[n].updater_id}
         /\ ShownFor(n, "u1") = {Placeholder("u1")}
         /\ remote.describe["u1"] = 0

\* C29: once a discovery has returned a directory id, the id never changes
\* and list_instances is not called again; every row appended from then on,
\* also one of a parent whose identityType is not AWS_IAM_IDC, shows that id
\* in identity_store_id and has its uncached principals looked up with
\* describe_user; a row appended while no id is held shows 'N/A', and no
\* row is changed after it was appended.
C29_DirectoryIdWriteOnce ==
    [][ /\ Truthy(identity_store_id) =>
             /\ identity_store_id' = identity_store_id
             /\ remote'.discover = remote.discover
        /\ Len(all_data') >= Len(all_data)
        /\ \A j \in 1..Len(all_data) : all_data'[j] = all_data[j]
        /\ (Appends /\ variant = "enhanced") =>
             /\ NewRow.identity_store_id = identity_store_id
             /\ Field(Columns(NewRow), "identity_store_id")
                  = IF Truthy(identity_store_id) THEN identity_store_id
                    ELSE "N/A"
             /\ \A u \in {NewRow.creator_id, NewRow.updater_id} :
                  (/\ Truthy(identity_store_id)
                   /\ u # "N/A"
                   /\ u \notin DOMAIN user_cache) =>
                      remote'.describe[u] = remote.describe[u] + 1
      ]_vars

\* the first parent discovered "d-1" and has no app child; the second is
\* backed by an OIDC provider, and its rows show "d-1" and the creator u1 as
\* the directory describes it
C29_Witness ==
    /\ variant = "enhanced"
    /\ pc = "done"
    /\ Len(applications) = 2
    /\ applications[1].identityType = "AWS_IAM_IDC"
    /\ applications[2].identityType = "AWS_IAM_IDP_OIDC"
    /\ remote.discover = 1
    /\ identity_store_id = "d-1"
    /\ \A j \in 1..Len(RowsOf(1)) : ~HasQApp(RowsOf(1)[j].qapp)
    /\ \E n \in 1..Len(all_data) :
         /\ all_data[n].app.applicationId = AppName(2)
         /\ Field(Columns(all_data[n]), "identity_store_id") = "d-1"
         /\ all_data[n].creator_id = "u1"
         /\ all_data[n].creator_info.email = "u1@corp"
         /\ remote.describe["u1"] = 1

\* the columns of a row that describe its app child
QAppCells(r) ==
    IF "creator_info" \in DOMAIN r THEN GlobalQAppColumns(r)
    ELSE SelectSeq(DataRowColumns(r),
                   LAMBDA kv : \E n \in 1..Len(DataRowNoQApp) :
                                   DataRowNoQApp[n][1] = kv[1])

\* C30: a parent whose list_library_items call failed, on the first page or
\* on a later one, gets no app row; it gets exactly one null-child row,
\* named 'No Q Apps', when include_empty is set and no row otherwise; and
\* its rows have the same app-child columns as the rows of a parent whose
\* listing succeeded with no item.
C30_FailedListingLikeEmpty ==
    \A i \in remote.qapps_failed :
        Completed(i) =>
            /\ AppRowsOf(i) = <<>>
            /\ Len(RowsOf(i)) = (IF include_empty THEN 1 ELSE 0)
            /\ \A n \in 1..Len(RowsOf(i)) :
                 Field(Columns(RowsOf(i)[n]), "qapp_name") = "No Q Apps"
            /\ \A j \in 1..Len(applications) :
                 (/\ Completed(j)
                  /\ j \notin remote.qapps_failed
                  /\ remote.listed[j] = 0) =>
                     /\ Len(RowsOf(j)) = Len(RowsOf(i))
                     /\ \A n \in 1..Len(RowsOf(i)) :
                          QAppCells(RowsOf(j)[n]) = QAppCells(RowsOf(i)[n])

\* the listing of the first parent failed on its second page, the listing
\* of the second parent was empty, and each has its one null-child row
C30_Witness ==
    /\ variant = "enhanced"
    /\ pc = "done"
    /\ include_empty
    /\ remote.qapps_failed = {1}
    /\ remote.listed = <<1, 0>>
    /\ Len(RowsOf(1)) = 1 /\ Len(RowsOf(2)) = 1
    /\ Len(QAppCells(RowsOf(1)[1])) > 1
    /\ Field(Columns(RowsOf(1)[1]), "qapp_name") = "No Q Apps"

====
